---- MODULE Spec2Model ----
(***************************************************************************)
(* BudgetApp: the statement parser (src/parse_statement.py) and the        *)
(* description normalizer (src/categorize_parsed_data.py).                 *)
(*                                                                         *)
(* Text is a sequence of one-character strings, so that strip, lower,      *)
(* split, substring tests, the regular-expression substitutions and the    *)
(* date and amount conversions are computed character by character, as the *)
(* Python code computes them.  Python's None is the value None below; a    *)
(* column index that is None is NoCol.  Indices held in variables are      *)
(* 0-based as in the code; s[i + 1] reads Python's s[i].                   *)
(***************************************************************************)
EXTENDS Integers, Sequences, FiniteSets, TLC

(***************************************************************************)
(* Characters                                                              *)
(***************************************************************************)
Printable ==
    << " ", "!", "\"", "#", "$", "%", "&", "'", "(", ")", "*", "+", ",", "-", ".", "/",
       "0", "1", "2", "3", "4", "5", "6", "7", "8", "9", ":", ";", "<", "=", ">", "?",
       "@", "A", "B", "C", "D", "E", "F", "G", "H", "I", "J", "K", "L", "M", "N", "O",
       "P", "Q", "R", "S", "T", "U", "V", "W", "X", "Y", "Z", "[", "\\", "]", "^", "_",
       "<grave>", "a", "b", "c", "d", "e", "f", "g", "h", "i", "j", "k", "l", "m", "n", "o",
       "p", "q", "r", "s", "t", "u", "v", "w", "x", "y", "z", "{", "|", "}", "~" >>

\* the code point of a character (ASCII 32..126, tab and newline; the grave
\* accent, code 96, is spelled out because the language reserves the character)
OrdTable ==
    [c \in { Printable[i] : i \in 1..Len(Printable) } \cup { "\t", "\n" } |->
        IF c = "\t" THEN 9
        ELSE IF c = "\n" THEN 10
        ELSE 31 + (CHOOSE i \in 1..Len(Printable) : Printable[i] = c)]

Ord(c) == OrdTable[c]

IsSpace(c) == c \in {" ", "\t", "\n"}

IsDigit(c) == c \in {"0", "1", "2", "3", "4", "5", "6", "7", "8", "9"}

UpperChars == { Printable[i] : i \in (65 - 31)..(90 - 31) }

LowerChars == { Printable[i] : i \in (97 - 31)..(122 - 31) }

\* U+2102, DOUBLE-STRUCK CAPITAL C, one character: an upper-case letter
\* (str.isupper() holds) and a word character, which has no lower-case form
CapitalOnly == "U+2102"

\* str.isupper() of a character
IsUpper(c) == c \in UpperChars \/ c = CapitalOnly

IsLowerAlpha(c) == c \in LowerChars

\* the class \w of the re module, on ASCII
IsWord(c) == IsDigit(c) \/ IsUpper(c) \/ IsLowerAlpha(c) \/ c = "_"

\* str.lower() of a character: a character without a lower-case form stays
LowerChar(c) == IF c \in UpperChars THEN Printable[Ord(c) + 32 - 31] ELSE c

DigitVal(c) == Ord(c) - 48

DigitChar(n) == Printable[n + 48 - 31]

(***************************************************************************)
(* Python str and list operations                                          *)
(***************************************************************************)
\* str.lower()
Lower(s) == [i \in 1..Len(s) |-> LowerChar(s[i])]

RECURSIVE LStrip(_)
LStrip(s) == IF s # <<>> /\ IsSpace(Head(s)) THEN LStrip(Tail(s)) ELSE s

RECURSIVE RStrip(_)
RStrip(s) ==
    IF s # <<>> /\ IsSpace(s[Len(s)]) THEN RStrip(SubSeq(s, 1, Len(s) - 1)) ELSE s

\* str.strip()
Strip(s) == RStrip(LStrip(s))

\* str.split(sep) for a one-character separator: the fields between the
\* separators, empty fields included, always at least one field
RECURSIVE SplitFrom(_, _, _, _)
SplitFrom(s, sep, i, cur) ==
    IF i > Len(s) THEN << cur >>
    ELSE IF s[i] = sep THEN << cur >> \o SplitFrom(s, sep, i + 1, << >>)
    ELSE SplitFrom(s, sep, i + 1, Append(cur, s[i]))

Split(s, sep) == SplitFrom(s, sep, 1, << >>)

\* sub in s (substring test on str)
Contains(s, sub) ==
    \E i \in 0..(Len(s) - Len(sub)) : SubSeq(s, i + 1, i + Len(sub)) = sub

\* x in list
InList(x, list) == \E i \in 1..Len(list) : list[i] = x

\* str comparison a < b: lexicographic by code point
RECURSIVE StrLess(_, _)
StrLess(a, b) ==
    IF b = << >> THEN FALSE
    ELSE IF a = << >> THEN TRUE
    ELSE IF Head(a) = Head(b) THEN StrLess(Tail(a), Tail(b))
    ELSE Ord(Head(a)) < Ord(Head(b))

\* next((i for i, h in enumerate(list) if P(h)), None), hits[i] being P(list[i])
NoCol == -1

FirstIndex(hits) ==
    IF \E i \in 1..Len(hits) : hits[i]
    THEN (CHOOSE i \in 1..Len(hits) : hits[i] /\ \A j \in 1..(i - 1) : ~hits[j]) - 1
    ELSE NoCol

\* None where a str is expected, and None where a list of str is expected
None == << "<None>" >>

NoneList == << None >>

\* the decimal value of a string of digits ("" counts 0)
RECURSIVE IntVal(_)
IntVal(s) ==
    IF s = << >> THEN 0
    ELSE 10 * IntVal(SubSeq(s, 1, Len(s) - 1)) + DigitVal(s[Len(s)])

AllDigits(s) == \A i \in 1..Len(s) : IsDigit(s[i])

RECURSIVE Pow10(_)
Pow10(n) == IF n = 0 THEN 1 ELSE 10 * Pow10(n - 1)

\* n written in decimal, zero-padded on the left to at least w digits
RECURSIVE Pad(_, _)
Pad(n, w) ==
    IF n < 10 /\ w <= 1 THEN << DigitChar(n) >>
    ELSE Append(Pad(n \div 10, w - 1), DigitChar(n % 10))

(***************************************************************************)
(* load_patterns: the rows csv.reader yields, each a list of cells, become *)
(* a dict card_name -> headers.  A dict is a sequence of <<key, value>>    *)
(* pairs in insertion order; assigning to a key it already holds replaces  *)
(* the value and keeps the key's place.                                    *)
(***************************************************************************)
DictSet(d, key, val) ==
    IF \E i \in 1..Len(d) : d[i][1] = key
    THEN [i \in 1..Len(d) |-> IF d[i][1] = key THEN << key, val >> ELSE d[i]]
    ELSE Append(d, << key, val >>)

NonEmptyStr(s) == s # << >>

\* [col.strip() for col in row[1:] if col.strip()]
PatternHeaders(row) ==
    SelectSeq([i \in 1..(Len(row) - 1) |-> Strip(row[i + 1])], NonEmptyStr)

RECURSIVE LoadRows(_, _)
LoadRows(rows, d) ==
    IF rows = << >> THEN d
    ELSE IF Head(rows) = << >> THEN LoadRows(Tail(rows), d)
    ELSE LoadRows(Tail(rows), DictSet(d, Head(rows)[1], PatternHeaders(Head(rows))))

load_patterns(rows) == LoadRows(rows, << >>)

(***************************************************************************)
(* find_matching_pattern                                                   *)
(***************************************************************************)
\* [col.strip() for col in line.split(',')]
RowOf(line) == LET f == Split(line, ",") IN [i \in 1..Len(f) |-> Strip(f[i])]

\* all(header in row for header in pattern_headers)
LineMatches(line, pattern_headers) ==
    LET row == RowOf(line) IN
    \A i \in 1..Len(pattern_headers) : InList(pattern_headers[i], row)

\* the inner loop, for idx, line in enumerate(file_content), from index idx:
\* the 0-based index of the first line that matches, or -1
RECURSIVE ScanLines(_, _, _)
ScanLines(lines, idx, pattern_headers) ==
    IF idx >= Len(lines) THEN -1
    ELSE IF LineMatches(lines[idx + 1], pattern_headers) THEN idx
    ELSE ScanLines(lines, idx + 1, pattern_headers)

\* the outer loop, for card_name, pattern_headers in patterns.items(), from
\* the p-th entry: the first return reached, or (None, None, -1)
RECURSIVE ScanPatterns(_, _, _)
ScanPatterns(lines, pats, p) ==
    IF p > Len(pats) THEN << None, NoneList, -1 >>
    ELSE LET idx == ScanLines(lines, 0, pats[p][2]) IN
         IF idx >= 0 THEN << pats[p][1], pats[p][2], idx >>
         ELSE ScanPatterns(lines, pats, p + 1)

\* a detector that scans the lines in the outer loop and the patterns in the
\* inner loop
RECURSIVE ScanLinesFirst(_, _, _)
ScanLinesFirst(lines, pats, idx) ==
    IF idx >= Len(lines) THEN << None, NoneList, -1 >>
    ELSE IF \E p \in 1..Len(pats) : LineMatches(lines[idx + 1], pats[p][2])
    THEN LET p == CHOOSE q \in 1..Len(pats) :
                      /\ LineMatches(lines[idx + 1], pats[q][2])
                      /\ \A r \in 1..(q - 1) : ~LineMatches(lines[idx + 1], pats[r][2])
         IN  << pats[p][1], pats[p][2], idx >>
    ELSE ScanLinesFirst(lines, pats, idx + 1)

find_matching_pattern_lines_first(lines, pats) == ScanLinesFirst(lines, pats, 0)

\* a detector that tries the patterns from the last to the first
RECURSIVE ScanPatternsBack(_, _, _)
ScanPatternsBack(lines, pats, p) ==
    IF p < 1 THEN << None, NoneList, -1 >>
    ELSE LET idx == ScanLines(lines, 0, pats[p][2]) IN
         IF idx >= 0 THEN << pats[p][1], pats[p][2], idx >>
         ELSE ScanPatternsBack(lines, pats, p - 1)

find_matching_pattern_last_first(lines, pats) == ScanPatternsBack(lines, pats, Len(pats))

find_matching_pattern(lines, pats) == ScanPatterns(lines, pats, 1)

(***************************************************************************)
(* parse_date                                                              *)
(***************************************************************************)
\* '%m/%d/%Y', '%Y-%m-%d', '%d-%m-%Y', '%m-%d-%y': separator and directives
DateFormats ==
    << [sep |-> "/", dirs |-> << "m", "d", "Y" >>],
       [sep |-> "-", dirs |-> << "Y", "m", "d" >>],
       [sep |-> "-", dirs |-> << "d", "m", "Y" >>],
       [sep |-> "-", dirs |-> << "m", "d", "y" >>] >>

\* the text a strptime directive accepts:
\*   %m  1[0-2]|0[1-9]|[1-9]      %d  3[0-1]|[1-2]\d|0[1-9]|[1-9]| [1-9]
\*   %Y  \d\d\d\d                 %y  \d\d
DirectiveAccepts(dir, t) ==
    CASE dir = "m" -> /\ Len(t) \in {1, 2} /\ AllDigits(t)
                      /\ IntVal(t) >= 1 /\ IntVal(t) <= 12
      [] dir = "d" -> \/ /\ Len(t) \in {1, 2} /\ AllDigits(t)
                         /\ IntVal(t) >= 1 /\ IntVal(t) <= 31
                      \/ /\ Len(t) = 2 /\ t[1] = " " /\ IsDigit(t[2]) /\ t[2] # "0"
      [] dir = "Y" -> Len(t) = 4 /\ AllDigits(t)
      [] dir = "y" -> Len(t) = 2 /\ AllDigits(t)

DirectiveValue(dir, t) ==
    CASE dir = "d" -> IF t[1] = " " THEN DigitVal(t[2]) ELSE IntVal(t)
      [] dir = "y" -> IF IntVal(t) <= 68 THEN 2000 + IntVal(t) ELSE 1900 + IntVal(t)
      [] OTHER     -> IntVal(t)

IsLeap(y) == (y % 4 = 0 /\ y % 100 # 0) \/ y % 400 = 0

DaysInMonth(y, m) ==
    IF m = 2 THEN (IF IsLeap(y) THEN 29 ELSE 28)
    ELSE IF m \in {4, 6, 9, 11} THEN 30 ELSE 31

\* the position of directive dir in a format (the year is "Y" or "y")
DirPos(fmt, dirset) == CHOOSE i \in 1..3 : fmt.dirs[i] \in dirset

\* datetime.strptime(s, fmt) succeeds: the whole of s matches the format and
\* the date exists
FormatParses(s, fmt) ==
    LET parts == Split(s, fmt.sep) IN
    /\ Len(parts) = 3
    /\ \A i \in 1..3 : DirectiveAccepts(fmt.dirs[i], parts[i])
    /\ LET y == DirectiveValue(fmt.dirs[DirPos(fmt, {"Y", "y"})], parts[DirPos(fmt, {"Y", "y"})])
           m == DirectiveValue("m", parts[DirPos(fmt, {"m"})])
           d == DirectiveValue("d", parts[DirPos(fmt, {"d"})])
       IN  y >= 1 /\ d <= DaysInMonth(y, m)

\* .strftime('%Y-%m-%d') of the parsed date: month and day in two digits, the
\* year in decimal (the C library of the build decides whether a year below
\* 1000 is zero-padded; glibc does not pad)
FormatIso(s, fmt) ==
    LET parts == Split(s, fmt.sep)
        y == DirectiveValue(fmt.dirs[DirPos(fmt, {"Y", "y"})], parts[DirPos(fmt, {"Y", "y"})])
        m == DirectiveValue("m", parts[DirPos(fmt, {"m"})])
        d == DirectiveValue("d", parts[DirPos(fmt, {"d"})])
    IN  Pad(y, 1) \o << "-" >> \o Pad(m, 2) \o << "-" >> \o Pad(d, 2)

\* a conversion that gives the empty string when no format parses
parse_date_blank_on_failure(date_str) ==
    LET s == Strip(date_str) IN
    IF \E f \in 1..Len(DateFormats) : FormatParses(s, DateFormats[f])
    THEN LET f == CHOOSE g \in 1..Len(DateFormats) :
                      /\ FormatParses(s, DateFormats[g])
                      /\ \A h \in 1..(g - 1) : ~FormatParses(s, DateFormats[h])
         IN  FormatIso(s, DateFormats[f])
    ELSE << >>

\* the formats are tried in order on date_str.strip(); the first that parses
\* gives the result; if none parses the ValueError is caught and date_str is
\* returned unchanged
parse_date(date_str) ==
    LET s == Strip(date_str) IN
    IF \E f \in 1..Len(DateFormats) : FormatParses(s, DateFormats[f])
    THEN LET f == CHOOSE g \in 1..Len(DateFormats) :
                      /\ FormatParses(s, DateFormats[g])
                      /\ \A h \in 1..(g - 1) : ~FormatParses(s, DateFormats[h])
         IN  FormatIso(s, DateFormats[f])
    ELSE date_str

(***************************************************************************)
(* normalize_amount.  A float is modelled as the exact decimal it denotes, *)
(* held as an integer number of units of 10^-FracDigits; the amounts of    *)
(* the input universe have at most FracDigits fraction digits.             *)
(***************************************************************************)
FracDigits == 2

\* re.sub(r'[^\d.-]', '', amount_str) keeps these characters
AmountChar(c) == IsDigit(c) \/ c = "." \/ c = "-"

\* float(cleaned) succeeds on: an optional sign, then digits with at most one
\* point among them and at least one digit
FloatParses(cleaned) ==
    LET body  == IF cleaned # << >> /\ Head(cleaned) = "-" THEN Tail(cleaned) ELSE cleaned
        parts == Split(body, ".")
    IN  /\ Len(parts) <= 2
        /\ \A i \in 1..Len(parts) : AllDigits(parts[i])
        /\ \E i \in 1..Len(parts) : parts[i] # << >>

FloatValue(cleaned) ==
    LET neg   == Head(cleaned) = "-"
        body  == IF neg THEN Tail(cleaned) ELSE cleaned
        parts == Split(body, ".")
        frac  == IF Len(parts) = 2 THEN parts[2] ELSE << >>
        used  == IF Len(frac) > FracDigits THEN FracDigits ELSE Len(frac)
        units == IntVal(parts[1]) * Pow10(FracDigits)
                   + IntVal(SubSeq(frac, 1, used)) * Pow10(FracDigits - used)
    IN  IF neg THEN 0 - units ELSE units

\* any exception of the conversion is caught and gives 0.0
normalize_amount(amount_str) ==
    LET cleaned == SelectSeq(amount_str, AmountChar) IN
    IF FloatParses(cleaned) THEN FloatValue(cleaned) ELSE 0

(***************************************************************************)
(* normalize (categorize_parsed_data.py).  A description that is not a str *)
(* is a missing value of the frame, NaN, which normalizes as "".           *)
(***************************************************************************)
NaN == << "<NaN>" >>

\* re.compile(r"[^\w\s]").sub(" ", t): each character that is neither a word
\* character nor whitespace becomes one space
SubPunct(t) == [i \in 1..Len(t) |-> IF IsWord(t[i]) \/ IsSpace(t[i]) THEN t[i] ELSE " "]

\* re.compile(r"\s+").sub(" ", t): each run of whitespace becomes one space
RECURSIVE SubSpaces(_)
SubSpaces(t) ==
    IF t = << >> THEN << >>
    ELSE IF IsSpace(Head(t))
    THEN IF Len(t) >= 2 /\ IsSpace(t[2]) THEN SubSpaces(Tail(t))
         ELSE << " " >> \o SubSpaces(Tail(t))
    ELSE << Head(t) >> \o SubSpaces(Tail(t))

\* a normalizer without the final strip
normalize_no_final_strip(text) ==
    LET str == IF text = NaN THEN << >> ELSE text
    IN  SubSpaces(SubPunct(Lower(Strip(str))))

\* a normalizer that drops punctuation instead of putting a space for it
normalize_punct_removed(text) ==
    LET str == IF text = NaN THEN << >> ELSE text
    IN  Strip(SubSpaces(SelectSeq(Lower(Strip(str)), LAMBDA c : IsWord(c) \/ IsSpace(c))))

normalize(text) ==
    LET str == IF text = NaN THEN << >> ELSE text
    IN  Strip(SubSpaces(SubPunct(Lower(Strip(str)))))

(***************************************************************************)
(* State of one call parse_statement_file(input_file, patterns_file)       *)
(***************************************************************************)
VARIABLES
    patterns_file,   \* the rows csv.reader yields for the patterns file
    input_file,      \* the lines of the statement file, as readlines() gives them
    pc,              \* "load", "find", "check", "rows", "done", "error"
    patterns,        \* load_patterns(patterns_file)
    file_content,    \* f.readlines()
    card_name, headers, start_idx,
    date_col, desc_col, amount_cols,
    pos,             \* 0-based index of the next line of the row loop
    dates, descriptions, amounts, cards,
    linenos,         \* history: the 0-based line each appended record came from
    df,              \* the returned table: a sequence of records
    error,           \* the ValueError raised, or "" when none
    text,            \* the argument of a call of normalize
    npc,             \* "call", "again", "done" ("idle": no such call)
    once,            \* normalize(text)
    twice,           \* normalize(normalize(text))
    reference_file,  \* the reference table file: whether it exists, its header, its rows
    categories_file, \* the taxonomy file: whether it exists, its "categories" list
    src,             \* the transactions frame handed to the categorizer
    site,            \* which copy of the categorizer runs
    cpc,             \* "update", "again", "start", "rows", "done", "error" ("idle": no call)
    ref,             \* standardize_cols(pd.read_csv(reference_file))
    desc_to_pair,    \* build_description_lookup(ref)
    all_choices,     \* list(desc_to_pair.keys())
    cpos,            \* 1-based index of the next row of src
    suggestions,     \* the rows of the returned frame
    cresult,         \* the error message returned, or "" when none
    call,            \* the arguments (description, category, subcategory) of an update
    ref_before,      \* history: the reference table file before the first update
    cat_before,      \* history: the taxonomy file before the first update
    ref_once,        \* history: the reference table file after the first update
    cat_once         \* history: the taxonomy file after the first update

parseVars ==
    << patterns_file, input_file, pc, patterns, file_content, card_name, headers,
       start_idx, date_col, desc_col, amount_cols, pos, dates, descriptions,
       amounts, cards, linenos, df, error >>

normVars == << text, npc, once, twice >>

normUnchanged == UNCHANGED normVars

catVars ==
    << reference_file, categories_file, src, site, cpc, ref, desc_to_pair, all_choices,
       cpos, suggestions, cresult, call, ref_before, cat_before, ref_once, cat_once >>

catUnchanged == UNCHANGED catVars

\* the row loop's lists are untouched
listsUnchanged == UNCHANGED << dates, descriptions, amounts, cards, linenos >>

inputsUnchanged == UNCHANGED << patterns_file, input_file >>

colsUnchanged == UNCHANGED << date_col, desc_col, amount_cols >>

matchUnchanged == UNCHANGED << card_name, headers, start_idx >>

(***************************************************************************)
(* The steps of parse_statement_file                                       *)
(***************************************************************************)
\* patterns = load_patterns(patterns_file); file_content = f.readlines()
LoadInputs ==
    /\ pc = "load"
    /\ normUnchanged /\ catUnchanged
    /\ patterns' = load_patterns(patterns_file)
    /\ file_content' = input_file
    /\ pc' = "find"
    /\ inputsUnchanged /\ matchUnchanged /\ colsUnchanged /\ listsUnchanged
    /\ UNCHANGED << pos, df, error >>

\* card_name, headers, start_idx = find_matching_pattern(file_content, patterns)
FindPattern ==
    /\ pc = "find"
    /\ normUnchanged /\ catUnchanged
    /\ LET r == find_matching_pattern(file_content, patterns) IN
         /\ card_name' = r[1]
         /\ headers' = r[2]
         /\ start_idx' = r[3]
    /\ pc' = "check"
    /\ inputsUnchanged /\ colsUnchanged /\ listsUnchanged
    /\ UNCHANGED << patterns, file_content, pos, df, error >>

\* not card_name or not headers
NoPattern == card_name = None \/ card_name = << >> \/ headers = NoneList \/ headers = << >>

\* raise ValueError("No matching pattern found for ...")
RaiseNoPattern ==
    /\ pc = "check"
    /\ normUnchanged /\ catUnchanged
    /\ NoPattern
    /\ error' = "No matching pattern found"
    /\ pc' = "error"
    /\ inputsUnchanged /\ matchUnchanged /\ colsUnchanged /\ listsUnchanged
    /\ UNCHANGED << patterns, file_content, pos, df >>

HasDate(h) == Contains(Lower(h), << "d", "a", "t", "e" >>)

HasDescription(h) ==
    \/ Contains(Lower(h), << "d", "e", "s", "c", "r", "i", "p", "t", "i", "o", "n" >>)
    \/ Contains(Lower(h), << "p", "a", "y", "e", "e" >>)

IsWithdrawals(h) == Lower(h) = << "w", "i", "t", "h", "d", "r", "a", "w", "a", "l", "s" >>

IsDeposits(h) == Lower(h) = << "d", "e", "p", "o", "s", "i", "t", "s" >>

IsDebit(h) == Lower(h) = << "d", "e", "b", "i", "t" >>

IsCredit(h) == Lower(h) = << "c", "r", "e", "d", "i", "t" >>

IsAmount(h) == Lower(h) = << "a", "m", "o", "u", "n", "t" >>

IsPnc(card) == Lower(card) = << "p", "n", "c", " ", "c", "r", "e", "d", "i", "t" >>

IsCiti(card) == Lower(card) = << "c", "i", "t", "i", " ", "c", "r", "e", "d", "i", "t" >>

\* date_col, desc_col: positions in the PATTERN's header list
DateCol(hdrs) == FirstIndex([k \in 1..Len(hdrs) |-> HasDate(hdrs[k])])

DescCol(hdrs) == FirstIndex([k \in 1..Len(hdrs) |-> HasDescription(hdrs[k])])

\* an amount strategy that falls back to the single Amount column when the
\* split columns of a debit/credit card are missing
AmountCols_fallback(card, hdrs) ==
    IF IsPnc(card) /\ FirstIndex([k \in 1..Len(hdrs) |-> IsWithdrawals(hdrs[k])]) # NoCol /\ FirstIndex([k \in 1..Len(hdrs) |-> IsDeposits(hdrs[k])]) # NoCol
    THEN << << FirstIndex([k \in 1..Len(hdrs) |-> IsWithdrawals(hdrs[k])]), FirstIndex([k \in 1..Len(hdrs) |-> IsDeposits(hdrs[k])]), "dc" >> >>
    ELSE IF IsCiti(card) /\ FirstIndex([k \in 1..Len(hdrs) |-> IsDebit(hdrs[k])]) # NoCol /\ FirstIndex([k \in 1..Len(hdrs) |-> IsCredit(hdrs[k])]) # NoCol
    THEN << << FirstIndex([k \in 1..Len(hdrs) |-> IsDebit(hdrs[k])]), FirstIndex([k \in 1..Len(hdrs) |-> IsCredit(hdrs[k])]), "dc" >> >>
    ELSE IF FirstIndex([k \in 1..Len(hdrs) |-> IsAmount(hdrs[k])]) = NoCol
         THEN << >>
         ELSE << << FirstIndex([k \in 1..Len(hdrs) |-> IsAmount(hdrs[k])]), NoCol, "single" >> >>

\* the amount strategy of the card: the (col1, col2, type) tuples of
\* amount_cols, or the empty list when a column the strategy needs is missing
\* (the code then raises and binds nothing)
AmountCols(card, hdrs) ==
    IF IsPnc(card)
    THEN IF FirstIndex([k \in 1..Len(hdrs) |-> IsWithdrawals(hdrs[k])]) = NoCol \/ FirstIndex([k \in 1..Len(hdrs) |-> IsDeposits(hdrs[k])]) = NoCol
         THEN << >>
         ELSE << << FirstIndex([k \in 1..Len(hdrs) |-> IsWithdrawals(hdrs[k])]), FirstIndex([k \in 1..Len(hdrs) |-> IsDeposits(hdrs[k])]), "dc" >> >>
    ELSE IF IsCiti(card)
    THEN IF FirstIndex([k \in 1..Len(hdrs) |-> IsDebit(hdrs[k])]) = NoCol \/ FirstIndex([k \in 1..Len(hdrs) |-> IsCredit(hdrs[k])]) = NoCol
         THEN << >>
         ELSE << << FirstIndex([k \in 1..Len(hdrs) |-> IsDebit(hdrs[k])]), FirstIndex([k \in 1..Len(hdrs) |-> IsCredit(hdrs[k])]), "dc" >> >>
    ELSE IF FirstIndex([k \in 1..Len(hdrs) |-> IsAmount(hdrs[k])]) = NoCol
         THEN << >>
         ELSE << << FirstIndex([k \in 1..Len(hdrs) |-> IsAmount(hdrs[k])]), NoCol, "single" >> >>

\* raise ValueError("Could not find ... columns ..."): the amount column(s)
\* of the card's strategy are missing
RaiseMissingAmount ==
    /\ pc = "check"
    /\ normUnchanged /\ catUnchanged
    /\ ~NoPattern
    /\ AmountCols(card_name, headers) = << >>
    /\ date_col' = DateCol(headers)
    /\ desc_col' = DescCol(headers)
    /\ error' = "Could not find amount columns"
    /\ pc' = "error"
    /\ inputsUnchanged /\ matchUnchanged /\ listsUnchanged
    /\ UNCHANGED << patterns, file_content, amount_cols, pos, df >>

\* raise ValueError("Could not find required date/description columns ...")
RaiseMissingDateDesc ==
    /\ pc = "check"
    /\ normUnchanged /\ catUnchanged
    /\ ~NoPattern
    /\ AmountCols(card_name, headers) # << >>
    /\ DateCol(headers) = NoCol \/ DescCol(headers) = NoCol
    /\ date_col' = DateCol(headers)
    /\ desc_col' = DescCol(headers)
    /\ amount_cols' = AmountCols(card_name, headers)
    /\ error' = "Could not find required date/description columns"
    /\ pc' = "error"
    /\ inputsUnchanged /\ matchUnchanged /\ listsUnchanged
    /\ UNCHANGED << patterns, file_content, pos, df >>

\* all columns found: the row loop starts at the line after the header line
ResolveColumns ==
    /\ pc = "check"
    /\ normUnchanged /\ catUnchanged
    /\ ~NoPattern
    /\ AmountCols(card_name, headers) # << >>
    /\ DateCol(headers) # NoCol /\ DescCol(headers) # NoCol
    /\ date_col' = DateCol(headers)
    /\ desc_col' = DescCol(headers)
    /\ amount_cols' = AmountCols(card_name, headers)
    /\ pos' = start_idx + 1
    /\ pc' = "rows"
    /\ inputsUnchanged /\ matchUnchanged /\ listsUnchanged
    /\ UNCHANGED << patterns, file_content, df, error >>

\* an amount loop that subtracts the debit from the credit
RECURSIVE AmountLoop_credit_first(_, _, _)
AmountLoop_credit_first(row, cols, amount) ==
    IF cols = << >> THEN amount
    ELSE LET col1 == Head(cols)[1]
             col2 == Head(cols)[2]
             debit  == IF Len(row) > col1 /\ row[col1 + 1] # << >>
                       THEN normalize_amount(row[col1 + 1]) ELSE 0
             credit == IF Len(row) > col2 /\ row[col2 + 1] # << >>
                       THEN normalize_amount(row[col2 + 1]) ELSE 0
             next == IF Head(cols)[3] = "dc" THEN credit - debit
                     ELSE IF Len(row) > col1 /\ row[col1 + 1] # << >>
                          THEN normalize_amount(row[col1 + 1]) ELSE amount
         IN  AmountLoop_credit_first(row, Tail(cols), next)

\* the amount of a row: the loop over amount_cols, starting from 0.0
RECURSIVE AmountLoop(_, _, _)
AmountLoop(row, cols, amount) ==
    IF cols = << >> THEN amount
    ELSE LET col1 == Head(cols)[1]
             col2 == Head(cols)[2]
             debit  == IF Len(row) > col1 /\ row[col1 + 1] # << >>
                       THEN normalize_amount(row[col1 + 1]) ELSE 0
             credit == IF Len(row) > col2 /\ row[col2 + 1] # << >>
                       THEN normalize_amount(row[col2 + 1]) ELSE 0
             next == IF Head(cols)[3] = "dc" THEN debit - credit
                     ELSE IF Len(row) > col1 /\ row[col1 + 1] # << >>
                          THEN normalize_amount(row[col1 + 1]) ELSE amount
         IN  AmountLoop(row, Tail(cols), next)

\* any(row): some field is a non-empty string
AnyField(row) == \E i \in 1..Len(row) : row[i] # << >>

\* a test that lets short lines through
RowHasDate_short_lines(row) ==
    /\ AnyField(row)
    /\ Len(row) > date_col /\ row[date_col + 1] # << >>

\* the line is examined: long enough, not blank, and its date field non-empty
RowHasDate(row) ==
    /\ Len(row) >= Len(headers) /\ AnyField(row)
    /\ Len(row) > date_col /\ row[date_col + 1] # << >>

RowDate(row) == parse_date(row[date_col + 1])

RowDescription(row) == IF Len(row) > desc_col THEN row[desc_col + 1] ELSE << >>

RowAmount(row) == AmountLoop(row, amount_cols, 0)

\* a test that appends whenever date and description are present
RowEmits_any_amount(row) ==
    /\ RowHasDate(row)
    /\ RowDate(row) # << >> /\ RowDescription(row) # << >>

\* if date and description and amount != 0.0
RowEmits(row) ==
    /\ RowHasDate(row)
    /\ RowDate(row) # << >> /\ RowDescription(row) # << >> /\ RowAmount(row) # 0

\* one iteration of: for line in file_content[start_idx + 1:]
ProcessLine ==
    /\ pc = "rows"
    /\ normUnchanged /\ catUnchanged
    /\ pos < Len(file_content)
    /\ LET row == RowOf(file_content[pos + 1]) IN
         IF RowEmits(row)
         THEN /\ dates' = Append(dates, RowDate(row))
              /\ descriptions' = Append(descriptions, RowDescription(row))
              /\ amounts' = Append(amounts, RowAmount(row))
              /\ cards' = Append(cards, card_name)
              /\ linenos' = Append(linenos, pos)
         ELSE listsUnchanged
    /\ pos' = pos + 1
    /\ inputsUnchanged /\ matchUnchanged /\ colsUnchanged
    /\ UNCHANGED << patterns, file_content, pc, df, error >>

\* the record of the i-th entries of the four lists
RecordAt(i) ==
    [date |-> dates[i], description |-> descriptions[i],
     amount |-> amounts[i], card |-> cards[i]]

\* a <= b on str
StrLeq(a, b) == a = b \/ StrLess(a, b)

\* a sort with the dates ascending
SortedFrames_ascending ==
    { [i \in 1..Len(dates) |-> RecordAt(p[i])] :
        p \in { q \in Permutations(1..Len(dates)) :
                  \A i \in 1..(Len(dates) - 1) : StrLeq(dates[q[i]], dates[q[i + 1]]) } }

\* df.sort_values('date', ascending=False) on the frame built from the four
\* lists: the rows reordered so that the dates descend.  The default sort is
\* not stable, so rows with equal dates may come out in any order.
SortedFrames ==
    { [i \in 1..Len(dates) |-> RecordAt(p[i])] :
        p \in { q \in Permutations(1..Len(dates)) :
                  \A i \in 1..(Len(dates) - 1) : StrLeq(dates[q[i + 1]], dates[q[i]]) } }

\* the loop is over: build the frame, sort it, return it
SortReturn ==
    /\ pc = "rows"
    /\ normUnchanged /\ catUnchanged
    /\ pos >= Len(file_content)
    /\ df' \in SortedFrames
    /\ pc' = "done"
    /\ inputsUnchanged /\ matchUnchanged /\ colsUnchanged /\ listsUnchanged
    /\ UNCHANGED << patterns, file_content, pos, error >>

(***************************************************************************)
(* Input universe of the parser: the texts the files are made of           *)
(***************************************************************************)
tDate == << "D", "a", "t", "e" >>

tDescription == << "D", "e", "s", "c", "r", "i", "p", "t", "i", "o", "n" >>

tPayee == << "P", "a", "y", "e", "e" >>

tAmount == << "A", "m", "o", "u", "n", "t" >>

tMemo == << "M", "e", "m", "o" >>

tDebit == << "D", "e", "b", "i", "t" >>

tCredit == << "C", "r", "e", "d", "i", "t" >>

tWithdrawals == << "W", "i", "t", "h", "d", "r", "a", "w", "a", "l", "s" >>

tDeposits == << "D", "e", "p", "o", "s", "i", "t", "s" >>

cGeneric == << "G", "e", "n", "e", "r", "i", "c" >>

cWide == << "W", "i", "d", "e" >>

cBlank == << "B", "l", "a", "n", "k" >>

cOdd == << "O", "d", "d" >>

cCash == << "C", "a", "s", "h" >>

cCiti == << "C", "i", "t", "i", " ", "C", "r", "e", "d", "i", "t" >>

cPnc == << "P", "N", "C", " ", "C", "r", "e", "d", "i", "t" >>

sBoiler == << "A", "c", "c", "o", "u", "n", "t", " ", "s", "u", "m", "m", "a", "r", "y" >>

sCoffee == << "C", "o", "f", "f", "e", "e", " ", "S", "h", "o", "p" >>

sTea == << "T", "e", "a" >>

dUs == << "0", "1", "/", "0", "2", "/", "2", "0", "2", "4" >>

dIso == << "2", "0", "2", "4", "-", "0", "3", "-", "0", "1" >>

dDmy == << "0", "5", "-", "0", "1", "-", "2", "0", "2", "4" >>

dShort == << "0", "1", "-", "0", "2", "-", "2", "4" >>

dBad == << "1", "3", "/", "4", "0", "/", "2", "0", "2", "4" >>

aNeg == << "-", "4", ".", "5", "0" >>

aZero == << "0" >>

aText == << "N", "/", "A" >>

aDollar == << "$", "7" >>

aFive == << "5" >>

aFrac == << "2", ".", "5", "0" >>

aSeven == << "7" >>

aThree == << "3" >>

\* sep.join(fields)
RECURSIVE Join(_, _)
Join(fields, sep) ==
    IF fields = << >> THEN << >>
    ELSE IF Len(fields) = 1 THEN fields[1]
    ELSE fields[1] \o << sep >> \o Join(Tail(fields), sep)

\* a line of a file as readlines() returns it
Line(fields) == Join(fields, ",") \o << "\n" >>

\* all sequences over S of length at most n
SeqsUpTo(S, n) == UNION { [1..k -> S] : k \in 0..n }

MaxPatterns == 2

MaxLines == 2

MaxRows == 2

\* rows of a patterns file: cells with stray blanks and a blank trailing cell,
\* a layout whose headers include another's, a name that is given twice, a
\* name without headers, an empty row
PatternRows ==
    { << cGeneric, << " " >> \o tDate, tDescription \o << " " >>, tAmount, << >> >>,
      << cWide, tDate, tDescription, tAmount, tMemo >>,
      << cGeneric, tDate, tPayee, tAmount >>,
      << cBlank >>,
      << >> }

DetectionLines ==
    { Line(<< sBoiler >>),
      Line(<< tDate, << " " >> \o tDescription, tAmount >>),
      Line(<< tMemo, tDate, tDescription, tAmount >>),
      Line(<< dUs, sCoffee, aNeg >>) }

\* detection cases: any patterns file with any statement file
DetectionCases ==
    SeqsUpTo(PatternRows, MaxPatterns) \X SeqsUpTo(DetectionLines, MaxLines)

\* a statement: lines before the header line, the header line, data lines
Statement(before, header, rows) == before \o << Line(header) >> \o rows

\* resolution cases: layouts that lack the date, the description or the amount
\* column(s) of their card's strategy, each with a statement of that layout
ResolveLayouts ==
    { << cOdd, tDescription, tAmount >>,
      << cOdd, tDate, tAmount >>,
      << cCash, tDate, tPayee >>,
      << cCash, tDate, tDescription, tDebit, tCredit >>,
      << cCiti, tDate, tDescription, tAmount >>,
      << cCiti, tDate, tDescription, tDebit >>,
      << cPnc, tDate, tDescription, tDebit, tCredit >>,
      << cPnc, tDescription, tWithdrawals, tDeposits >>,
      << cCash, tMemo >> }

ResolveCases ==
    { << << r >>, Statement(<< >>, Tail(r), << Line(<< dUs, sCoffee, aFive, aThree >>) >>) >> :
        r \in ResolveLayouts }

\* data lines of a layout with one amount column
SingleRows ==
    { Line(<< dUs, sCoffee, aNeg >>),
      Line(<< dIso, sCoffee, aNeg >>),
      Line(<< dDmy, sCoffee, aSeven >>),
      Line(<< dShort, sTea, aNeg >>),
      Line(<< dBad, sTea, aDollar >>),
      Line(<< << >>, sCoffee, aNeg >>),
      Line(<< dUs, << >>, aSeven >>),
      Line(<< dBad, << >>, aSeven >>),
      Line(<< dIso, sCoffee, aZero >>),
      Line(<< dIso, sCoffee, aText >>),
      Line(<< dIso, sCoffee, << >> >>),
      Line(<< sTea >>),
      Line(<< << >> >>) }

\* data lines of a layout with a debit and a credit column
SplitRows ==
    { Line(<< dUs, sCoffee, aFive, << >> >>),
      Line(<< dUs, sCoffee, << >>, aFrac >>),
      Line(<< dIso, sCoffee, aFive, aFive >>),
      Line(<< dIso, sCoffee, << >>, << >> >>),
      Line(<< dDmy, sTea, aText, aThree >>),
      Line(<< dDmy, sTea, aSeven, aFrac >>),
      Line(<< dBad, sCoffee, aFive, aText >>),
      Line(<< dIso, << >>, aFive, << >> >>),
      Line(<< sTea >>),
      Line(<< << >> >>) }

\* data lines of a statement whose header line reads Description,Date,Amount
SwappedRows ==
    { Line(<< sCoffee, dUs, aNeg >>),
      Line(<< sTea, dIso, aSeven >>),
      Line(<< sCoffee, dBad, aDollar >>),
      Line(<< << >>, dDmy, aSeven >>),
      Line(<< sTea, << >>, aNeg >>),
      Line(<< dShort, sCoffee, aFive >>) }

\* the data lines of a statement: any lines of the layout, or one such line
\* between two lines that give a record
DataLines(universe, first, last) ==
    SeqsUpTo(universe, MaxRows) \cup { << first, r, last >> : r \in universe }

SingleData ==
    DataLines(SingleRows, Line(<< dDmy, sCoffee, aSeven >>), Line(<< dUs, sCoffee, aNeg >>))

SplitData ==
    DataLines(SplitRows, Line(<< dDmy, sTea, aSeven, aFrac >>),
              Line(<< dUs, sCoffee, aFive, << >> >>))

\* row cases: a layout, a header line that names its columns (in the order of
\* the pattern, or in another order), and data lines; in one family a line
\* that reads like a data line stands before the header line
RowCases ==
    { << << << cGeneric, tDate, tDescription, tAmount >> >>,
         Statement(<< >>, << tDate, tDescription, tAmount >>, rows) >> :
        rows \in SingleData }
    \cup
    { << << << cGeneric, tDate, tDescription, tAmount >> >>,
         Statement(<< Line(<< sBoiler >>) >>, << tDescription, tDate, tAmount >>, rows) >> :
        rows \in SeqsUpTo(SwappedRows, MaxRows) }
    \cup
    { << << << cGeneric, tDate, tDescription, tAmount >> >>,
         Statement(<< Line(<< dUs, sCoffee, aNeg >>) >>, << tDate, tDescription, tAmount >>, rows) >> :
        rows \in SeqsUpTo({ Line(<< dIso, sCoffee, aNeg >>), Line(<< sTea >>) }, MaxRows) }
    \cup
    { << << << cCiti, tDate, tDescription, tDebit, tCredit >> >>,
         Statement(<< >>, << tDate, tDescription, tDebit, tCredit >>, rows) >> :
        rows \in SplitData }
    \cup
    { << << << cPnc, tDate, tDescription, tWithdrawals, tDeposits >> >>,
         Statement(<< Line(<< sBoiler >>) >>,
                   << tDate, tDescription, tWithdrawals, tDeposits >>, rows) >> :
        rows \in SplitData }

ParseCases == DetectionCases \cup ResolveCases \cup RowCases

\* the locals of a call that has not started
ParseLocalsInit ==
    /\ patterns = << >>
    /\ file_content = << >>
    /\ card_name = None
    /\ headers = NoneList
    /\ start_idx = -1
    /\ date_col = NoCol
    /\ desc_col = NoCol
    /\ amount_cols = << >>
    /\ pos = 0
    /\ dates = << >>
    /\ descriptions = << >>
    /\ amounts = << >>
    /\ cards = << >>
    /\ linenos = << >>
    /\ df = << >>
    /\ error = ""

NormalizeIdle == text = << >> /\ npc = "idle" /\ once = << >> /\ twice = << >>

\* a file that does not exist
NoFile == [exists |-> FALSE]

\* the locals of a categorizer call that has not started
CategorizeLocalsInit ==
    /\ ref = << >>
    /\ desc_to_pair = << >>
    /\ all_choices = << >>
    /\ cpos = 1
    /\ suggestions = << >>
    /\ cresult = ""

UpdateIdle ==
    /\ call = << >>
    /\ ref_before = NoFile /\ cat_before = NoFile
    /\ ref_once = NoFile /\ cat_once = NoFile

CategorizeIdle ==
    /\ reference_file = NoFile /\ categories_file = NoFile
    /\ src = << >> /\ site = "" /\ cpc = "idle"
    /\ CategorizeLocalsInit
    /\ UpdateIdle

Init ==
    /\ \E c \in ParseCases : patterns_file = c[1] /\ input_file = c[2]
    /\ pc = "load"
    /\ ParseLocalsInit
    /\ NormalizeIdle
    /\ CategorizeIdle

Next ==
    \/ LoadInputs
    \/ FindPattern
    \/ RaiseNoPattern
    \/ RaiseMissingAmount
    \/ RaiseMissingDateDesc
    \/ ResolveColumns
    \/ ProcessLine
    \/ SortReturn

vars == << parseVars, normVars, catVars >>

\* one call of parse_statement_file on any case of the input universe
Spec == Init /\ [][Next]_vars

(***************************************************************************)
(* Calls of normalize: on a text, and again on the result                  *)
(***************************************************************************)
MaxText == 3

TextChars == { "A", "b", "1", "_", ".", ",", " ", "\t", CapitalOnly }

NormalizeInputs == SeqsUpTo(TextChars, MaxText) \cup { NaN }

ParseIdle ==
    /\ patterns_file = << >> /\ input_file = << >>
    /\ pc = "idle"
    /\ ParseLocalsInit

parseUnchanged == UNCHANGED parseVars

InitNormalize ==
    /\ text \in NormalizeInputs
    /\ npc = "call"
    /\ once = << >>
    /\ twice = << >>
    /\ ParseIdle
    /\ CategorizeIdle

Normalize ==
    /\ npc = "call"
    /\ once' = normalize(text)
    /\ npc' = "again"
    /\ UNCHANGED << text, twice >>
    /\ parseUnchanged /\ catUnchanged

NormalizeAgain ==
    /\ npc = "again"
    /\ twice' = normalize(once)
    /\ npc' = "done"
    /\ UNCHANGED << text, once >>
    /\ parseUnchanged /\ catUnchanged

NextNormalize ==
    \/ Normalize
    \/ NormalizeAgain

SpecNormalize == InitNormalize /\ [][NextNormalize]_vars

(***************************************************************************)
(* Claims about layout detection                                           *)
(***************************************************************************)
Detected == pc \notin { "load", "find" }

\* the p-th pattern of the mapping has all its headers in line l (1-based)
MatchesAt(p, l) == LineMatches(file_content[l], patterns[p][2])

MatchesSomewhere(p) == \E l \in 1..Len(file_content) : MatchesAt(p, l)

\* C1 as stated: the detector returns the smallest index of a line that holds
\* all headers of some pattern, and the first pattern in mapping order that
\* matches that line.
C1_FirstLineWins ==
    Detected =>
      IF \E p \in 1..Len(patterns) : MatchesSomewhere(p)
      THEN \E l \in 1..Len(file_content), p \in 1..Len(patterns) :
             /\ MatchesAt(p, l)
             /\ \A k \in 1..(l - 1), q \in 1..Len(patterns) : ~MatchesAt(q, k)
             /\ \A q \in 1..(p - 1) : ~MatchesAt(q, l)
             /\ start_idx = l - 1
             /\ card_name = patterns[p][1]
      ELSE card_name = None /\ start_idx = -1

\* C1 amended: the detector returns the first pattern in mapping order that
\* has all its headers in some line of the file, with the smallest index of a
\* line that holds all headers of that pattern; it returns no card and -1 when
\* no pattern matches any line.
C1_FirstPatternWins ==
    Detected =>
      IF \E p \in 1..Len(patterns) : MatchesSomewhere(p)
      THEN \E p \in 1..Len(patterns), l \in 1..Len(file_content) :
             /\ MatchesAt(p, l)
             /\ \A q \in 1..(p - 1) : ~MatchesSomewhere(q)
             /\ \A k \in 1..(l - 1) : ~MatchesAt(p, k)
             /\ card_name = patterns[p][1]
             /\ headers = patterns[p][2]
             /\ start_idx = l - 1
      ELSE card_name = None /\ headers = NoneList /\ start_idx = -1

\* the first pattern matches only a later line, another pattern an earlier
\* line, and the detector has returned the first pattern with the later line
C1_Witness ==
    /\ pc = "check"
    /\ Len(patterns) >= 2
    /\ card_name = patterns[1][1]
    /\ start_idx >= 1
    /\ \E q \in 2..Len(patterns), k \in 1..start_idx :
         patterns[q][2] # << >> /\ MatchesAt(q, k)

\* C3, its second half as stated: whenever some pattern with at least one
\* header has all its headers in a line of the file, the call does not fail
\* with the no-matching-layout error, whatever else the patterns table holds.
C3_MatchNeverRejected ==
    (\E p \in 1..Len(patterns) : patterns[p][2] # << >> /\ MatchesSomewhere(p))
      => ~(pc = "error" /\ error = "No matching pattern found")

\* the non-empty rows of the patterns file that carry the card name
RowsNamed(name) ==
    { i \in 1..Len(patterns_file) : patterns_file[i] # << >> /\ patterns_file[i][1] = name }

HeadersWithin(h1, h2) == \A i \in 1..Len(h1) : InList(h1[i], h2)

\* rows a < b of the patterns file give two patterns, one's headers among the
\* other's, and some line of the file holds the headers of both
NestedPair(a, b) ==
    /\ a < b
    /\ patterns_file[a] # << >> /\ patterns_file[b] # << >>
    /\ RowsNamed(patterns_file[a][1]) = { a } /\ RowsNamed(patterns_file[b][1]) = { b }
    /\ LET ha == PatternHeaders(patterns_file[a])
           hb == PatternHeaders(patterns_file[b])
       IN  /\ HeadersWithin(ha, hb) \/ HeadersWithin(hb, ha)
           /\ \E l \in 1..Len(file_content) :
                LineMatches(file_content[l], ha) /\ LineMatches(file_content[l], hb)

\* C4: when the headers of one pattern are among those of another and a line
\* holds both, the detector never returns the one listed later in the
\* patterns table, and returns the one listed first when no other pattern
\* precedes it, whichever of the two has the fewer headers.
C4_OrderStable ==
    Detected =>
      \A a, b \in 1..Len(patterns_file) :
        NestedPair(a, b) =>
          /\ card_name # patterns_file[b][1]
          /\ (\A r \in 1..(a - 1) : patterns_file[r] = << >>) =>
               /\ card_name = patterns_file[a][1]
               /\ headers = PatternHeaders(patterns_file[a])

\* the pattern with more headers is listed first, the one with fewer second,
\* a line holds both, and the detector has returned the first
C4_Witness ==
    /\ pc = "check"
    /\ \E b \in 2..Len(patterns_file) :
         /\ NestedPair(1, b)
         /\ Len(PatternHeaders(patterns_file[b])) < Len(PatternHeaders(patterns_file[1]))
         /\ PatternHeaders(patterns_file[b]) # << >>
         /\ card_name = patterns_file[1][1]

(***************************************************************************)
(* Claims about column resolution and the row loop                         *)
(***************************************************************************)
InRows == pc \in { "rows", "done" }

\* the 0-based indices of the lines the row loop has gone through
Examined == IF InRows THEN (start_idx + 1)..(pos - 1) ELSE { }

Emitted(l) == \E i \in 1..Len(linenos) : linenos[i] = l

RowAt(l) == RowOf(file_content[l + 1])

\* the field of a row at a 0-based column, "" when the row has no such column
FieldOf(row, col) == IF col >= 0 /\ col < Len(row) THEN row[col + 1] ELSE << >>

\* the value of an amount field: a blank field counts 0
AmountField(f) == IF f = << >> THEN 0 ELSE normalize_amount(f)

\* the 0-based column of the file's header line whose token is h
NamedCol(h) == FirstIndex([k \in 1..Len(RowAt(start_idx)) |-> RowAt(start_idx)[k] = h])

NamedField(row, h) == FieldOf(row, NamedCol(h))

\* C2 as stated: every value of an emitted record is read from the file column
\* whose token in the detected header line equals the resolved header,
\* whatever position that token has in the header line.
C2_ColumnsByName ==
    InRows =>
      \A i \in 1..Len(linenos) :
        LET row  == RowAt(linenos[i])
            col1 == amount_cols[1][1]
            col2 == amount_cols[1][2]
        IN  /\ dates[i] = parse_date(NamedField(row, headers[date_col + 1]))
            /\ descriptions[i] = NamedField(row, headers[desc_col + 1])
            /\ amounts[i] =
                 IF amount_cols[1][3] = "dc"
                 THEN AmountField(NamedField(row, headers[col1 + 1]))
                        - AmountField(NamedField(row, headers[col2 + 1]))
                 ELSE AmountField(NamedField(row, headers[col1 + 1]))

\* the amount of a row by the columns the resolver has bound
ResolvedAmount(row) ==
    IF amount_cols[1][3] = "dc"
    THEN AmountField(FieldOf(row, amount_cols[1][1])) - AmountField(FieldOf(row, amount_cols[1][2]))
    ELSE AmountField(FieldOf(row, amount_cols[1][1]))

\* C5: every record of the lists and of the returned table has a non-zero
\* amount, a non-empty date and a non-empty description; a data row whose date
\* field or description field (the resolver's columns) is empty, or whose
\* resolved amount is 0, gives no record, and the row loop raises no error.
C5_RecordsValid ==
    /\ \A i \in 1..Len(dates) :
         dates[i] # << >> /\ descriptions[i] # << >> /\ amounts[i] # 0
    /\ \A i \in 1..Len(df) :
         df[i].date # << >> /\ df[i].description # << >> /\ df[i].amount # 0
    /\ InRows => error = ""
    /\ \A l \in Examined :
         (\/ FieldOf(RowAt(l), date_col) = << >>
          \/ FieldOf(RowAt(l), desc_col) = << >>
          \/ ResolvedAmount(RowAt(l)) = 0) => ~Emitted(l)

\* the call has returned a record, after dropping a row that has a date and a
\* description and whose amount is 0
C5_Witness ==
    /\ pc = "done"
    /\ Len(df) >= 1
    /\ \E l \in Examined :
         /\ Len(RowAt(l)) >= Len(headers)
         /\ FieldOf(RowAt(l), date_col) # << >> /\ FieldOf(RowAt(l), desc_col) # << >>
         /\ ResolvedAmount(RowAt(l)) = 0
         /\ ~Emitted(l)

SomeHeader(P(_)) == \E i \in 1..Len(headers) : P(headers[i])

LacksColumn ==
    \/ ~SomeHeader(HasDate)
    \/ ~SomeHeader(HasDescription)
    \/ IF IsPnc(card_name) THEN ~SomeHeader(IsWithdrawals) \/ ~SomeHeader(IsDeposits)
       ELSE IF IsCiti(card_name) THEN ~SomeHeader(IsDebit) \/ ~SomeHeader(IsCredit)
       ELSE ~SomeHeader(IsAmount)

\* C7: when the matched layout's header list has no header containing 'date',
\* none containing 'description' or 'payee', or lacks the amount column(s) of
\* its card's strategy, the call ends in an error with no table and no record;
\* a call that reaches the row loop has bound the columns of its card's own
\* strategy, never those of another.
C7_MissingColumnsFail ==
    /\ (pc \in { "rows", "done", "error" } /\ ~NoPattern /\ LacksColumn) =>
         /\ pc = "error" /\ error # ""
         /\ df = << >> /\ dates = << >>
    /\ InRows =>
         amount_cols =
           IF IsPnc(card_name)
           THEN << << FirstIndex([k \in 1..Len(headers) |-> IsWithdrawals(headers[k])]), FirstIndex([k \in 1..Len(headers) |-> IsDeposits(headers[k])]), "dc" >> >>
           ELSE IF IsCiti(card_name)
           THEN << << FirstIndex([k \in 1..Len(headers) |-> IsDebit(headers[k])]), FirstIndex([k \in 1..Len(headers) |-> IsCredit(headers[k])]), "dc" >> >>
           ELSE << << FirstIndex([k \in 1..Len(headers) |-> IsAmount(headers[k])]), NoCol, "single" >> >>

\* a 'Citi Credit' layout with an Amount column but no Debit/Credit pair has
\* failed
C7_Witness ==
    /\ pc = "error"
    /\ ~NoPattern
    /\ IsCiti(card_name) /\ SomeHeader(IsAmount) /\ SomeHeader(HasDate)
    /\ SomeHeader(HasDescription)
    /\ error = "Could not find amount columns"

\* no format of parse_date parses the field
UnparseableDate(f) == \A g \in 1..Len(DateFormats) : ~FormatParses(Strip(f), DateFormats[g])

\* a field that is not blank and that float() rejects after the stripping
Unconvertible(f) == f # << >> /\ ~FloatParses(SelectSeq(f, AmountChar))

\* the amount fields of a row, by the columns the resolver has bound
AmountFields(row) ==
    IF amount_cols[1][3] = "dc"
    THEN { FieldOf(row, amount_cols[1][1]), FieldOf(row, amount_cols[1][2]) }
    ELSE { FieldOf(row, amount_cols[1][1]) }

\* the row loop looks at the line: enough fields, not blank, a date field
Qualifies(l) ==
    /\ Len(RowAt(l)) >= Len(headers)
    /\ \E i \in 1..Len(RowAt(l)) : RowAt(l)[i] # << >>
    /\ FieldOf(RowAt(l), date_col) # << >>

\* C8 as stated, read for rows that have a description: no data row makes the
\* call raise; a row whose date matches no format gives a record with the raw
\* date whenever its amount is non-zero; a row with an amount field that cannot
\* be converted is dropped.
C8_BadFieldsAsStated ==
    InRows =>
      /\ error = ""
      /\ \A l \in Examined :
           (Qualifies(l) /\ FieldOf(RowAt(l), desc_col) # << >>) =>
             /\ (UnparseableDate(FieldOf(RowAt(l), date_col)) /\ ResolvedAmount(RowAt(l)) # 0) =>
                  \E i \in 1..Len(linenos) :
                    linenos[i] = l /\ dates[i] = FieldOf(RowAt(l), date_col)
             /\ (\E f \in AmountFields(RowAt(l)) : Unconvertible(f)) => ~Emitted(l)

\* the dates of the input universe that parse, with the ISO date of each
DateVectors ==
    { << dUs,    << "2", "0", "2", "4", "-", "0", "1", "-", "0", "2" >> >>,
      << dIso,   << "2", "0", "2", "4", "-", "0", "3", "-", "0", "1" >> >>,
      << dDmy,   << "2", "0", "2", "4", "-", "0", "1", "-", "0", "5" >> >>,
      << dShort, << "2", "0", "2", "4", "-", "0", "1", "-", "0", "2" >> >> }

\* the value of an amount field when a field that cannot be converted counts 0
LenientField(f) ==
    IF f = << >> \/ Unconvertible(f) THEN 0 ELSE FloatValue(SelectSeq(f, AmountChar))

LenientAmount(row) ==
    IF amount_cols[1][3] = "dc"
    THEN LenientField(FieldOf(row, amount_cols[1][1])) - LenientField(FieldOf(row, amount_cols[1][2]))
    ELSE LenientField(FieldOf(row, amount_cols[1][1]))

\* C8 amended: no data row makes the call raise.  A date that matches none of
\* the formats is kept as the raw string, and its record is emitted when the
\* description is non-empty and the amount is non-zero; a date that matches a
\* format is stored in ISO form.  An amount field that cannot be converted
\* counts 0.0: in a single-amount layout the row is dropped, in a debit/credit
\* layout the amount is debit - credit with that side 0 and the row is dropped
\* only if that difference is 0.  Every row gives its record or not by its own
\* fields alone, whatever the rows before and after it.
C8_BadFieldsDegrade ==
    InRows =>
      /\ error = ""
      /\ \A l \in Examined :
           Emitted(l) <=>
             /\ Qualifies(l)
             /\ FieldOf(RowAt(l), desc_col) # << >>
             /\ LenientAmount(RowAt(l)) # 0
      /\ \A i \in 1..Len(linenos) :
           LET row == RowAt(linenos[i])
               f   == FieldOf(row, date_col)
           IN  /\ UnparseableDate(f) => dates[i] = f
               /\ \A v \in DateVectors : f = v[1] => dates[i] = v[2]
               /\ amounts[i] = LenientAmount(row)
      /\ \A l \in Examined :
           (amount_cols[1][3] = "single" /\ Unconvertible(FieldOf(RowAt(l), amount_cols[1][1])))
             => ~Emitted(l)

\* between two rows that gave records, a row with a date that matches no
\* format and an amount field that cannot be converted has given a record with
\* the raw date
C8_Witness ==
    /\ pc = "done"
    /\ \E i \in 2..(Len(linenos) - 1) :
         LET row == RowAt(linenos[i]) IN
         /\ linenos[i - 1] = linenos[i] - 1
         /\ linenos[i + 1] = linenos[i] + 1
         /\ UnparseableDate(FieldOf(row, date_col))
         /\ dates[i] = FieldOf(row, date_col)
         /\ \E f \in AmountFields(row) : Unconvertible(f)

\* the number of entries of a sequence equal to x
Count(seq, x) == Cardinality({ i \in 1..Len(seq) : seq[i] = x })

\* the records appended by the row loop, in file order
EmittedRecords == [i \in 1..Len(dates) |-> RecordAt(i)]

\* C9: the returned table is ordered by date descending under the
\* lexicographic comparison of the date strings, and it holds exactly the
\* records the row loop appended, each as many times.
C9_SortedByDate ==
    pc = "done" =>
      /\ \A i \in 1..(Len(df) - 1) : ~StrLess(df[i].date, df[i + 1].date)
      /\ Len(df) = Len(dates)
      /\ \A i \in 1..Len(df) : Count(df, df[i]) = Count(EmittedRecords, df[i])

\* the call has returned records that the file gives in ascending order of
\* their dates, one of them with a date kept as a raw string
C9_Witness ==
    /\ pc = "done"
    /\ Len(df) >= 2
    /\ StrLess(dates[1], dates[2])
    /\ StrLess(df[Len(df)].date, df[1].date)
    /\ \E i \in 1..Len(df) : UnparseableDate(df[i].date)

(***************************************************************************)
(* Claims about normalize                                                  *)
(***************************************************************************)
\* single spaces only, and no space at either end
SingleSpaced(t) ==
    /\ \A i \in 1..(Len(t) - 1) : ~(t[i] = " " /\ t[i + 1] = " ")
    /\ t # << >> => (t[1] # " " /\ t[Len(t)] # " ")

\* C10 as stated: normalize is idempotent, normalize(normalize(s)) =
\* normalize(s), and its output holds only lower-case word characters and
\* single spaces, with no leading or trailing space.
C10_LowerCaseOutput ==
    /\ npc \in { "again", "done" } =>
         /\ \A i \in 1..Len(once) : once[i] = " " \/ (IsWord(once[i]) /\ ~IsUpper(once[i]))
         /\ SingleSpaced(once)
    /\ npc = "done" => twice = once

\* C10 amended: normalize is idempotent, normalize(normalize(s)) =
\* normalize(s), and its output holds only single spaces and word characters
\* that lower-casing leaves unchanged (an upper-case character that has no
\* lower-case form stays in the output), with no leading or trailing space.
C10_Idempotent ==
    /\ npc \in { "again", "done" } =>
         /\ \A i \in 1..Len(once) :
              once[i] = " " \/ (IsWord(once[i]) /\ LowerChar(once[i]) = once[i])
         /\ SingleSpaced(once)
    /\ npc = "done" => twice = once

\* a text with an upper-case letter that has a lower-case form, one that has
\* none, and punctuation at its end has been normalized twice
C10_Witness ==
    /\ npc = "done"
    /\ text # NaN /\ text # << >>
    /\ \E i \in 1..Len(text) : text[i] \in UpperChars
    /\ \E i \in 1..Len(once) : once[i] = CapitalOnly
    /\ text[Len(text)] \in { ".", "," }
    /\ once # text

\* a character the normalizer replaces by a space: neither a word character
\* nor whitespace
IsPunct(c) == ~IsWord(c) /\ ~IsSpace(c)

\* the same letter in the other case
SwapCase(c) ==
    IF c \in UpperChars THEN Printable[Ord(c) + 32 - 31]
    ELSE IF c \in LowerChars THEN Printable[Ord(c) - 32 - 31]
    ELSE c

\* t with c put after its first k characters
InsertAt(t, k, c) == SubSeq(t, 1, k) \o << c >> \o SubSeq(t, k + 1, Len(t))

\* t without its i-th character
DeleteAt(t, i) == SubSeq(t, 1, i - 1) \o SubSeq(t, i + 1, Len(t))

\* the texts that differ from t in the case of one letter
CaseEdits(t) == { [t EXCEPT ![i] = SwapCase(t[i])] : i \in 1..Len(t) }

\* the texts that differ from t in one punctuation character, put in or
\* taken out anywhere
PunctEdits(t) ==
    { InsertAt(t, p[1], p[2]) : p \in (0..Len(t)) \X { c \in TextChars : IsPunct(c) } }
      \cup { DeleteAt(t, i) : i \in { j \in 1..Len(t) : IsPunct(t[j]) } }

SpaceAt(t, i) == i \in 1..Len(t) /\ IsSpace(t[i])

\* the texts that differ from t in the amount of whitespace: one whitespace
\* character more or less at an end or next to other whitespace
SpaceEdits(t) ==
    { InsertAt(t, p[1], p[2]) :
        p \in { k \in 0..Len(t) : k = 0 \/ k = Len(t) \/ SpaceAt(t, k) \/ SpaceAt(t, k + 1) }
                \X { c \in TextChars : IsSpace(c) } }
      \cup { DeleteAt(t, i) :
               i \in { j \in 1..Len(t) :
                         /\ IsSpace(t[j])
                         /\ j = 1 \/ j = Len(t) \/ SpaceAt(t, j - 1) \/ SpaceAt(t, j + 1) } }

SepAt(t, i) == i \in 1..Len(t) /\ ~IsWord(t[i])

\* the texts that differ from t in one separator (a punctuation or whitespace
\* character): replaced by another separator, or put in or taken out at an end
\* or next to another separator
SeparatorEdits(t) ==
    { [t EXCEPT ![p[1]] = p[2]] :
        p \in { j \in 1..Len(t) : SepAt(t, j) } \X { c \in TextChars : ~IsWord(c) } }
      \cup { InsertAt(t, p[1], p[2]) :
               p \in { k \in 0..Len(t) : k = 0 \/ k = Len(t) \/ SepAt(t, k) \/ SepAt(t, k + 1) }
                       \X { c \in TextChars : ~IsWord(c) } }
      \cup { DeleteAt(t, i) :
               i \in { j \in 1..Len(t) :
                         /\ SepAt(t, j)
                         /\ j = 1 \/ j = Len(t) \/ SepAt(t, j - 1) \/ SepAt(t, j + 1) } }

standardize_cols(columns) == [i \in 1..Len(columns) |-> Lower(Strip(columns[i]))]

\* row.get(label): the cell under the label, None when no column has it
RowGet(columns, row, label) ==
    LET i == FirstIndex([k \in 1..Len(columns) |-> columns[k] = label])
    IN  IF i = NoCol THEN None ELSE row[i + 1]

\* pd.notna(v)
notna(v) == v # NaN /\ v # None

\* dict lookup: the index of the key among the pairs, 0 when it is no key
KeyIndex(d, key) ==
    IF \E i \in 1..Len(d) : d[i][1] = key
    THEN CHOOSE i \in 1..Len(d) : d[i][1] = key
    ELSE 0

\* pairs_by_desc[nd].append(pair) on a defaultdict(list)
AppendTo(d, key, pair) ==
    LET k == KeyIndex(d, key)
    IN  IF k = 0 THEN Append(d, << key, << pair >> >>)
        ELSE [d EXCEPT ![k] = << key, d[k][2] \o << pair >> >>]

\* Counter(pairs)[p]
CountOf(pairs, p) == Cardinality({ i \in 1..Len(pairs) : pairs[i] = p })

\* the first pair in order of first occurrence, whatever its count
most_common_pair_first_seen(pairs) ==
    IF pairs = << >> THEN << None, None >> ELSE pairs[1]

\* Counter(pairs).most_common(1)[0]: the maximum of the counts, taken over the
\* pairs in order of first occurrence, the first maximum winning
most_common_pair(pairs) ==
    IF pairs = << >> THEN << None, None >>
    ELSE pairs[CHOOSE i \in 1..Len(pairs) :
                 /\ \A j \in 1..Len(pairs) : CountOf(pairs, pairs[j]) <= CountOf(pairs, pairs[i])
                 /\ \A j \in 1..(i - 1) : CountOf(pairs, pairs[j]) < CountOf(pairs, pairs[i])]

\* the name of the subcategory column at each of the two copies of the code
SubLabel(where) ==
    IF where = "categorize_parsed_data"
    THEN << "s", "u", "b", "c", "a", "t", "e", "g", "o", "r", "y" >>
    ELSE << "s", "u", "b", "-", "c", "a", "t", "e", "g", "o", "r", "y" >>

SubLabelElse == << "s", "u", "b", "_", "c", "a", "t", "e", "g", "o", "r", "y" >>

DescriptionLabel == << "d", "e", "s", "c", "r", "i", "p", "t", "i", "o", "n" >>

CategoryLabel == << "c", "a", "t", "e", "g", "o", "r", "y" >>

\* the loop of build_description_lookup over the rows from the i-th on
RECURSIVE GroupPairs_with_missing(_, _, _, _, _)
GroupPairs_with_missing(columns, rows, i, where, d) ==
    IF i > Len(rows) THEN d
    ELSE LET nd  == normalize(RowGet(columns, rows[i], DescriptionLabel))
             cat == RowGet(columns, rows[i], CategoryLabel)
             sub == RowGet(columns, rows[i], SubLabel(where))
         IN  GroupPairs_with_missing(columns, rows, i + 1, where, AppendTo(d, nd, << cat, sub >>))

RECURSIVE GroupPairs(_, _, _, _, _)
GroupPairs(columns, rows, i, where, d) ==
    IF i > Len(rows) THEN d
    ELSE LET nd  == normalize(RowGet(columns, rows[i], DescriptionLabel))
             cat == RowGet(columns, rows[i], CategoryLabel)
             sub == IF \E k \in 1..Len(columns) : columns[k] = SubLabel(where)
                    THEN RowGet(columns, rows[i], SubLabel(where))
                    ELSE RowGet(columns, rows[i], SubLabelElse)
         IN  GroupPairs(columns, rows, i + 1, where,
                        IF notna(cat) /\ notna(sub) THEN AppendTo(d, nd, << cat, sub >>) ELSE d)

\* lookup[nd] = most_common_pair(pairs) for each group, in the groups' order
VoteEach(pairs_by_desc) ==
    [g \in 1..Len(pairs_by_desc) |->
       << pairs_by_desc[g][1], most_common_pair(pairs_by_desc[g][2]) >>]

build_description_lookup(dest_df, where) ==
    VoteEach(GroupPairs(dest_df.columns, dest_df.rows, 1, where, << >>))

(***************************************************************************)
(* The fuzzy stage: process.extractOne with fuzz.token_set_ratio.  A score *)
(* is the exact fraction <<n, d>>, n / d, that the float approximates.     *)
(***************************************************************************)
\* str.split(): the maximal runs of characters that are not whitespace
RECURSIVE SplitWords(_, _)
SplitWords(t, cur) ==
    IF t = << >> THEN (IF cur = << >> THEN << >> ELSE << cur >>)
    ELSE IF IsSpace(Head(t))
    THEN (IF cur = << >> THEN << >> ELSE << cur >>) \o SplitWords(Tail(t), << >>)
    ELSE SplitWords(Tail(t), Append(cur, Head(t)))

\* set(s.split())
TokenSet(t) ==
    LET words == SplitWords(t, << >>)
    IN  { words[i] : i \in 1..Len(words) }

\* sorted(tokens)
RECURSIVE SortedTokens(_)
SortedTokens(S) ==
    IF S = { } THEN << >>
    ELSE LET m == CHOOSE x \in S : \A y \in S : x = y \/ StrLess(x, y)
         IN  << m >> \o SortedTokens(S \ { m })

\* " ".join(sorted(tokens))
JoinedTokens(S) == Join(SortedTokens(S), " ")

\* the length of a longest common subsequence
RECURSIVE LcsLen(_, _)
LcsLen(a, b) ==
    IF a = << >> \/ b = << >> THEN 0
    ELSE IF Head(a) = Head(b) THEN 1 + LcsLen(Tail(a), Tail(b))
    ELSE LET x == LcsLen(Tail(a), b)
             y == LcsLen(a, Tail(b))
         IN  IF x >= y THEN x ELSE y

\* Indel.distance: insertions and deletions that turn a into b
IndelDistance(a, b) == Len(a) + Len(b) - 2 * LcsLen(a, b)

\* 100 - 100 * dist / lensum, and 100 when lensum is 0
NormDistance(dist, lensum) ==
    IF lensum = 0 THEN << 100, 1 >> ELSE << 100 * (lensum - dist), lensum >>

ScoreLess(p, q) == p[1] * q[2] < q[1] * p[2]

ScoreMax(p, q) == IF ScoreLess(p, q) THEN q ELSE p

\* the last step of token_set_ratio, on the lengths of the joined tokens and
\* the distance of the two differences: the best of the ratios of
\* sect+ab <-> sect+ba, sect <-> sect+ab and sect <-> sect+ba
LengthRatio(sect_len, ab_len, ba_len, dist) ==
    LET sep == IF sect_len = 0 THEN 0 ELSE 1
        sect_ab_len == sect_len + sep + ab_len
        sect_ba_len == sect_len + sep + ba_len
        result == NormDistance(dist, sect_ab_len + sect_ba_len)
    IN  IF sect_len = 0 THEN result
        ELSE ScoreMax(result,
                      ScoreMax(NormDistance(sep + ab_len, sect_len + sect_ab_len),
                               NormDistance(sep + ba_len, sect_len + sect_ba_len)))

\* token_set_ratio once the tokens are joined
JoinedRatio(sect, diff_ab_joined, diff_ba_joined) ==
    LengthRatio(Len(sect), Len(diff_ab_joined), Len(diff_ba_joined),
                IndelDistance(diff_ab_joined, diff_ba_joined))

\* token_set_ratio on the two sets of tokens
TokenSetsRatio(tokens_a, tokens_b) ==
    IF tokens_a = { } \/ tokens_b = { } THEN << 0, 1 >>
    ELSE IF /\ tokens_a \cap tokens_b # { }
            /\ tokens_a \subseteq tokens_b \/ tokens_b \subseteq tokens_a
    THEN << 100, 1 >>
    ELSE JoinedRatio(JoinedTokens(tokens_a \cap tokens_b),
                     JoinedTokens(tokens_a \ tokens_b),
                     JoinedTokens(tokens_b \ tokens_a))

\* fuzz.token_set_ratio(s1, s2)
token_set_ratio(s1, s2) == TokenSetsRatio(TokenSet(s1), TokenSet(s2))

\* an extractOne that keeps the last of the choices with the best score
extractOne_last_best(query, choices) ==
    IF choices = << >> THEN << None, << 0, 1 >> >>
    ELSE LET scores == [i \in 1..Len(choices) |-> token_set_ratio(query, choices[i])]
             k == CHOOSE i \in 1..Len(choices) :
                    /\ \A j \in 1..Len(choices) : ~ScoreLess(scores[i], scores[j])
                    /\ \A j \in (i + 1)..Len(choices) : ScoreLess(scores[j], scores[i])
         IN  << choices[k], scores[k] >>

\* process.extractOne(query, choices, scorer=fuzz.token_set_ratio): the first
\* of the choices with the best score, and that score
extractOne(query, choices) ==
    IF choices = << >> THEN << None, << 0, 1 >> >>
    ELSE LET scores == [i \in 1..Len(choices) |-> token_set_ratio(query, choices[i])]
             k == CHOOSE i \in 1..Len(choices) :
                    /\ \A j \in 1..Len(choices) : ~ScoreLess(scores[i], scores[j])
                    /\ \A j \in 1..(i - 1) : ScoreLess(scores[j], scores[i])
         IN  << choices[k], scores[k] >>

\* fuzzy_best_match(query, choices, threshold): (None, 0.0) without choices,
\* the best choice and its score otherwise; the threshold is not used
fuzzy_best_match(query, choices, threshold) ==
    IF choices = << >> THEN << None, << 0, 1 >> >> ELSE extractOne(query, choices)

\* round(score, 1) in tenths: to the nearest tenth, a tie to the even one
RoundTenths(score) ==
    LET q == (10 * score[1]) \div score[2]
        r == (10 * score[1]) % score[2]
    IN  IF 2 * r < score[2] THEN q
        ELSE IF 2 * r > score[2] THEN q + 1
        ELSE IF q % 2 = 0 THEN q ELSE q + 1

\* one threshold for every copy
Threshold_same_everywhere(where) == 50

\* the fuzzy threshold written at each of the two copies of the code
Threshold(where) == IF where = "categorize_parsed_data" THEN 50 ELSE 90

(***************************************************************************)
(* One categorization run: categorize_parsed_data(src, reference_file),    *)
(* or the same steps in load_and_process_data of app.py                    *)
(***************************************************************************)
\* pd.read_csv: the header gives the column labels, an empty field is the
\* missing value
read_csv(file) ==
    [columns |-> file.header,
     rows |-> [r \in 1..Len(file.rows) |->
                 [k \in 1..Len(file.rows[r]) |->
                    IF file.rows[r][k] = << >> THEN NaN ELSE file.rows[r][k]]]]

\* a check that does not ask for the subcategory column
RequiredLabels_no_subcategory(where) == { DescriptionLabel, CategoryLabel }

\* required_ref
RequiredLabels(where) == { DescriptionLabel, CategoryLabel, SubLabel(where) }

\* required_ref.issubset(set(ref.columns))
HasRequired(columns, where) ==
    RequiredLabels(where) \subseteq { columns[k] : k \in 1..Len(columns) }

\* the two stages with the fuzzy stage tried first
MatchStages_fuzzy_first(lookup, nd, fb, threshold) ==
    LET k == KeyIndex(lookup, nd)
        b == KeyIndex(lookup, fb[1])
        fuzzy == fb[1] # None /\ ~ScoreLess(fb[2], << threshold, 1 >>) /\ b # 0
    IN  IF fuzzy THEN << lookup[b][2][1], lookup[b][2][2], "fuzzy", fb[2] >>
        ELSE IF k # 0 THEN << lookup[k][2][1], lookup[k][2][2], "exact", << 100, 1 >> >>
        ELSE << None, None, "none", << 0, 1 >> >>

\* the exact stage and the fuzzy stage of the loop body, fb being what
\* fuzzy_best_match returns for nd: cat, sub, match_type, match_score
MatchStages(lookup, nd, fb, threshold) ==
    LET k == KeyIndex(lookup, nd)
        b == KeyIndex(lookup, fb[1])
    IN  IF k # 0 /\ lookup[k][2][1] # None /\ lookup[k][2][2] # None
        THEN << lookup[k][2][1], lookup[k][2][2], "exact", << 100, 1 >> >>
        ELSE IF /\ fb[1] # None
                /\ ~ScoreLess(fb[2], << threshold, 1 >>)
                /\ b # 0 /\ lookup[b][2][1] # None /\ lookup[b][2][2] # None
        THEN << lookup[b][2][1], lookup[b][2][2], "fuzzy", fb[2] >>
        ELSE << None, None, "none", << 0, 1 >> >>

\* nd = normalize(row["description"]), then the two stages
MatchRow(lookup, nd, choices, threshold) ==
    MatchStages(lookup, nd, fuzzy_best_match(nd, choices, threshold), threshold)

\* a suggestion that carries the normalized description
SuggestionDict_normalized(row, m) ==
    [date |-> row.date, description |-> normalize(row.description),
     amount |-> row.amount, card |-> row.card,
     category |-> m[1], subcategory |-> m[2],
     match_type |-> m[3], match_score |-> RoundTenths(m[4])]

\* the suggestion dict; the score is round(match_score, 1), held in tenths
SuggestionDict(row, m) ==
    [date |-> row.date, description |-> row.description,
     amount |-> row.amount, card |-> row.card,
     category |-> m[1], subcategory |-> m[2],
     match_type |-> m[3], match_score |-> RoundTenths(m[4])]

\* the body of the loop over src: the suggestion for one row
Suggestion(row, where, lookup, choices) ==
    SuggestionDict(row, MatchRow(lookup, normalize(row.description), choices, Threshold(where)))

updateUnchanged == UNCHANGED << call, ref_before, cat_before, ref_once, cat_once >>

filesUnchanged == UNCHANGED << reference_file, categories_file >>

othersUnchanged == UNCHANGED << parseVars, normVars >>

\* if not os.path.exists(reference_file): return None, None, "Reference file not found"
ReferenceNotFound ==
    /\ cpc = "start"
    /\ ~reference_file.exists
    /\ cresult' = "Reference file not found"
    /\ cpc' = "error"
    /\ UNCHANGED << src, site, ref, desc_to_pair, all_choices, cpos, suggestions >>
    /\ filesUnchanged /\ updateUnchanged /\ othersUnchanged

\* if not required_ref.issubset(set(ref.columns)): return None, None, "... missing required columns"
ReferenceMissingColumns ==
    /\ cpc = "start"
    /\ reference_file.exists
    /\ LET frame == read_csv(reference_file)
           columns == standardize_cols(frame.columns)
       IN  /\ ~HasRequired(columns, site)
           /\ ref' = [columns |-> columns, rows |-> frame.rows]
    /\ cresult' = "Reference file missing required columns"
    /\ cpc' = "error"
    /\ UNCHANGED << src, site, desc_to_pair, all_choices, cpos, suggestions >>
    /\ filesUnchanged /\ updateUnchanged /\ othersUnchanged

\* desc_to_pair = build_description_lookup(ref); all_choices = list(desc_to_pair.keys())
BuildLookup ==
    /\ cpc = "start"
    /\ reference_file.exists
    /\ LET frame == read_csv(reference_file)
           columns == standardize_cols(frame.columns)
           lookup == build_description_lookup([columns |-> columns, rows |-> frame.rows], site)
       IN  /\ HasRequired(columns, site)
           /\ ref' = [columns |-> columns, rows |-> frame.rows]
           /\ desc_to_pair' = lookup
           /\ all_choices' = [g \in 1..Len(lookup) |-> lookup[g][1]]
    /\ suggestions' = << >>
    /\ cpos' = 1
    /\ cpc' = "rows"
    /\ UNCHANGED << src, site, cresult >>
    /\ filesUnchanged /\ updateUnchanged /\ othersUnchanged

\* one turn of the loop: for _, row in src.iterrows()
CategorizeRow ==
    /\ cpc = "rows"
    /\ cpos <= Len(src)
    /\ suggestions' = Append(suggestions, Suggestion(src[cpos], site, desc_to_pair, all_choices))
    /\ cpos' = cpos + 1
    /\ UNCHANGED << src, site, cpc, ref, desc_to_pair, all_choices, cresult >>
    /\ filesUnchanged /\ updateUnchanged /\ othersUnchanged

\* suggest_df = pd.DataFrame(suggestions); return suggest_df
ReturnSuggestions ==
    /\ cpc = "rows"
    /\ cpos > Len(src)
    /\ cpc' = "done"
    /\ UNCHANGED << src, site, ref, desc_to_pair, all_choices, cpos, suggestions, cresult >>
    /\ filesUnchanged /\ updateUnchanged /\ othersUnchanged

(***************************************************************************)
(* Input universe of the categorizer                                       *)
(***************************************************************************)
\* descriptions of reference rows: two spellings of one key, and another key
rAbC == << "A", "b", " ", "c" >>

rAbCPunct == << "a", "b", ",", " ", "c" >>

rAbD == << "a", "b", " ", "d" >>

\* descriptions of transactions: the key "ab c" in another spelling, a token
\* of two keys, a word near the keys, a word far from them
xAbC == << " ", "A", "B", " ", "c", "." >>

xAb == << "a", "b" >>

xAbd == << "A", "b", "d" >>

xFar == << "q" >>

kFood == << "F", "o", "o", "d" >>

kFun == << "F", "u", "n" >>

kDining == << "D", "i", "n", "i", "n", "g" >>

kMisc == << "M", "i", "s", "c" >>

\* a row of the transactions frame
Transaction(description) ==
    [date |-> "2024-01-02", description |-> description, amount |-> -450, card |-> "Generic"]

\* the transactions frames: rows with and without an exact match, a missing
\* description, no rows
SrcCases ==
    { << Transaction(xAbC), Transaction(xAb) >>,
      << Transaction(xAbd), Transaction(xFar) >>,
      << Transaction(NaN) >>,
      << >> }

MaxRef == 3

\* rows of a reference file under the header description, category,
\* subcategory: pairs that agree and disagree for one key, a row without
\* category, without subcategory, without description
ReferenceRows ==
    { << rAbC, kFood, kDining >>,
      << rAbC, kFun, kMisc >>,
      << rAbCPunct, kFun, kMisc >>,
      << rAbCPunct, kFood, kDining >>,
      << rAbD, kFood, kMisc >>,
      << rAbC, << >>, kDining >>,
      << rAbD, kFun, << >> >>,
      << << >>, kFun, kMisc >> }

ReferenceFile(header, rows) == [exists |-> TRUE, header |-> header, rows |-> rows]

\* reference files with the three columns
VoteCases ==
    { ReferenceFile(<< DescriptionLabel, CategoryLabel, SubLabel("categorize_parsed_data") >>, rows) :
        rows \in SeqsUpTo(ReferenceRows, MaxRef) }

\* reference files whose header is spelled otherwise, holds more, or lacks a
\* column, and the file that does not exist
HeaderCases ==
    { ReferenceFile(<< << " ", "D", "e", "s", "c", "r", "i", "p", "t", "i", "o", "n" >>, << "C", "A", "T", "E", "G", "O", "R", "Y" >>, << "S", "u", "b", "C", "a", "t", "e", "g", "o", "r", "y", " " >> >>,
                    << << rAbC, kFood, kDining >> >>),
      ReferenceFile(<< << "s", "u", "b", "c", "a", "t", "e", "g", "o", "r", "y" >>, << "n", "o", "t", "e" >>, CategoryLabel, DescriptionLabel >>,
                    << << kDining, << >>, kFood, rAbC >> >>),
      ReferenceFile(<< DescriptionLabel, CategoryLabel >>, << << rAbC, kFood >> >>),
      ReferenceFile(<< DescriptionLabel, CategoryLabel, SubLabel("load_and_process_data") >>,
                    << << rAbC, kFood, kDining >> >>),
      ReferenceFile(<< DescriptionLabel, CategoryLabel, SubLabelElse >>,
                    << << rAbC, kFood, kDining >> >>),
      ReferenceFile(<< DescriptionLabel, SubLabel("categorize_parsed_data") >>, << << rAbC, kDining >> >>),
      ReferenceFile(<< CategoryLabel, SubLabel("categorize_parsed_data") >>, << << kFood, kDining >> >>),
      ReferenceFile(<< << "d", "e", "s", "c" >>, CategoryLabel, SubLabel("categorize_parsed_data") >>,
                    << << rAbC, kFood, kDining >> >>),
      NoFile }

InitCategorize ==
    /\ reference_file \in VoteCases \cup HeaderCases
    /\ src \in SrcCases
    /\ site = "categorize_parsed_data"
    /\ cpc = "start"
    /\ categories_file = NoFile
    /\ CategorizeLocalsInit
    /\ UpdateIdle
    /\ ParseIdle
    /\ NormalizeIdle

NextCategorize ==
    \/ ReferenceNotFound
    \/ ReferenceMissingColumns
    \/ BuildLookup
    \/ CategorizeRow
    \/ ReturnSuggestions

\* one call of categorize_parsed_data on any case of the input universe
SpecCategorize == InitCategorize /\ [][NextCategorize]_vars

(***************************************************************************)
(* Claims about the lookup table and the matcher                           *)
(***************************************************************************)
\* the lookup table has been built from the reference frame
LookupBuilt == cpc \in { "rows", "done" }

\* the cell of the i-th reference row under a column label
RefCell(i, label) == ref.rows[i][CHOOSE k \in 1..Len(ref.columns) : ref.columns[k] = label]

RefKey(i) == normalize(RefCell(i, DescriptionLabel))

RefPair(i) == << RefCell(i, CategoryLabel), RefCell(i, SubLabel(site)) >>

\* the reference rows with both category and subcategory present
ValidRows == { i \in 1..Len(ref.rows) : RefPair(i)[1] # NaN /\ RefPair(i)[2] # NaN }

\* the valid reference rows with a normalized description and a pair
Voters(key, p) == { i \in ValidRows : RefKey(i) = key /\ RefPair(i) = p }

LookupKeys == { desc_to_pair[g][1] : g \in 1..Len(desc_to_pair) }

\* C12: the lookup maps each normalized description to the pair that occurs
\* most often among the valid reference rows with that normalized description,
\* and among pairs with the maximum count to the one that occurs first.
C12_MajorityVote ==
    LookupBuilt =>
      \A g \in 1..Len(desc_to_pair) :
        LET key == desc_to_pair[g][1]
            p == desc_to_pair[g][2]
        IN  /\ Voters(key, p) # { }
            /\ \A i \in ValidRows :
                 (RefKey(i) = key /\ RefPair(i) # p) =>
                   \/ Cardinality(Voters(key, RefPair(i))) < Cardinality(Voters(key, p))
                   \/ /\ Cardinality(Voters(key, RefPair(i))) = Cardinality(Voters(key, p))
                      /\ \E j \in Voters(key, p) : \A m \in Voters(key, RefPair(i)) : j < m

\* a key whose first valid row, under another spelling of the description,
\* holds a pair that two later rows outvote
C12_Witness ==
    /\ cpc = "done"
    /\ \E g \in 1..Len(desc_to_pair) :
         LET key == desc_to_pair[g][1]
             p == desc_to_pair[g][2]
         IN  /\ Cardinality(Voters(key, p)) = 2
             /\ \E i \in ValidRows :
                  /\ RefKey(i) = key /\ RefPair(i) # p
                  /\ \A j \in Voters(key, p) : i < j
                  /\ \E j \in Voters(key, p) :
                       RefCell(j, DescriptionLabel) # RefCell(i, DescriptionLabel)

\* the reference frame without the rows that miss a category or subcategory
ValidFrame ==
    [columns |-> ref.columns,
     rows |-> SelectSeq(ref.rows,
                LAMBDA r : r \in { ref.rows[i] : i \in ValidRows })]

\* C13: rows without category or without subcategory take no part in the vote
\* (the lookup is the one built from the valid rows alone), no key maps to a
\* pair with an absent component, and a normalized description is a key if and
\* only if some valid row has it.
C13_ValidRowsOnly ==
    LookupBuilt =>
      /\ desc_to_pair = build_description_lookup(ValidFrame, site)
      /\ \A g \in 1..Len(desc_to_pair) :
           /\ desc_to_pair[g][2][1] \notin { NaN, None }
           /\ desc_to_pair[g][2][2] \notin { NaN, None }
           /\ \A h \in 1..Len(desc_to_pair) : desc_to_pair[h][1] = desc_to_pair[g][1] => h = g
      /\ LookupKeys = { RefKey(i) : i \in ValidRows }

\* one description has only a row without subcategory and is no key, another
\* has a valid row and a row without category and is a key
C13_Witness ==
    /\ cpc = "done"
    /\ \E i \in 1..Len(ref.rows) :
         i \notin ValidRows /\ RefKey(i) \notin LookupKeys /\ RefPair(i)[2] = NaN
    /\ \E i \in 1..Len(ref.rows) :
         i \notin ValidRows /\ RefKey(i) \in LookupKeys /\ RefPair(i)[1] = NaN

\* the normalized description of the i-th transaction
SrcKey(i) == normalize(src[i].description)

\* C14: a transaction whose normalized description is a lookup key gets that
\* key's pair with match_type exact and match_score 100.0 (the fuzzy stage is
\* not applied); every row with match_type exact has match_score 100.0 and a
\* normalized description that is a lookup key.
C14_ExactMatch ==
    \A i \in 1..Len(suggestions) :
      /\ SrcKey(i) \in LookupKeys =>
           /\ \E g \in 1..Len(desc_to_pair) :
                /\ desc_to_pair[g][1] = SrcKey(i)
                /\ suggestions[i].category = desc_to_pair[g][2][1]
                /\ suggestions[i].subcategory = desc_to_pair[g][2][2]
           /\ suggestions[i].match_type = "exact"
           /\ suggestions[i].match_score = 1000
      /\ suggestions[i].match_type = "exact" =>
           /\ suggestions[i].match_score = 1000
           /\ SrcKey(i) \in LookupKeys

\* a transaction spelled unlike every reference row has matched exactly, while
\* the lookup holds another key with some of its tokens
C14_Witness ==
    /\ cpc = "done"
    /\ Len(desc_to_pair) >= 2
    /\ \E i \in 1..Len(suggestions) :
         /\ suggestions[i].match_type = "exact"
         /\ \A r \in 1..Len(ref.rows) : RefCell(r, DescriptionLabel) # src[i].description
         /\ \E g \in 1..Len(desc_to_pair) :
              /\ desc_to_pair[g][1] # SrcKey(i)
              /\ TokenSet(desc_to_pair[g][1]) \cap TokenSet(SrcKey(i)) # { }

\* the scores of a normalized description against the lookup keys, in order
KeyScores(nd) == [g \in 1..Len(desc_to_pair) |-> token_set_ratio(nd, desc_to_pair[g][1])]

\* the keys whose score none exceeds
BestKeys(scores) == { g \in 1..Len(scores) : \A h \in 1..Len(scores) : ~ScoreLess(scores[g], scores[h]) }

MeetsThreshold(score) == score[1] >= Threshold(site) * score[2]

NoMatch(s) ==
    /\ s.category = None /\ s.subcategory = None
    /\ s.match_type = "none" /\ s.match_score = 0

AbsentIffNone(s) ==
    /\ s.category = None <=> s.match_type = "none"
    /\ s.subcategory = None <=> s.match_type = "none"

\* the fuzzy row as the claim words it: the pair of a best key, and the best
\* score itself as match_score (held in tenths)
FuzzyAsStated(s, scores) ==
    \E g \in BestKeys(scores) :
      /\ s.category = desc_to_pair[g][2][1] /\ s.subcategory = desc_to_pair[g][2][2]
      /\ s.match_type = "fuzzy"
      /\ s.match_score * scores[g][2] = 10 * scores[g][1]

\* C15 as stated: for a transaction whose normalized description is no lookup
\* key, if the best token-set score over the keys meets the threshold the row
\* gets the best candidate's pair, match_type fuzzy and match_score equal to
\* that score; otherwise category and subcategory are absent, match_type is
\* none and match_score 0.0.  In every row category and subcategory are absent
\* exactly when match_type is none.
C15_ScoreAsComputed ==
    \A i \in 1..Len(suggestions) :
      /\ AbsentIffNone(suggestions[i])
      /\ SrcKey(i) \notin LookupKeys =>
           IF \E g \in BestKeys(KeyScores(SrcKey(i))) : MeetsThreshold(KeyScores(SrcKey(i))[g])
           THEN FuzzyAsStated(suggestions[i], KeyScores(SrcKey(i)))
           ELSE NoMatch(suggestions[i])

\* the fuzzy row of the code: the pair of the first of the best keys, and as
\* match_score the tenth nearest to the best score
FuzzyRounded(s, scores) ==
    \E g \in BestKeys(scores) :
      /\ \A h \in BestKeys(scores) : g <= h
      /\ s.category = desc_to_pair[g][2][1] /\ s.subcategory = desc_to_pair[g][2][2]
      /\ s.match_type = "fuzzy"
      /\ 2 * (s.match_score * scores[g][2] - 10 * scores[g][1]) <= scores[g][2]
      /\ 2 * (10 * scores[g][1] - s.match_score * scores[g][2]) <= scores[g][2]

\* C15 amended: as stated, but match_score is the best score rounded to one
\* decimal, and the best candidate is the first key, in the order of the
\* lookup, among those with the best score.
C15_FuzzyRounded ==
    \A i \in 1..Len(suggestions) :
      /\ AbsentIffNone(suggestions[i])
      /\ SrcKey(i) \notin LookupKeys =>
           IF \E g \in BestKeys(KeyScores(SrcKey(i))) : MeetsThreshold(KeyScores(SrcKey(i))[g])
           THEN FuzzyRounded(suggestions[i], KeyScores(SrcKey(i)))
           ELSE NoMatch(suggestions[i])

\* one run has given a fuzzy row whose score is no whole tenth and a row
\* without match although the lookup has keys
C15_Witness ==
    /\ cpc = "done"
    /\ \E i \in 1..Len(suggestions) :
         /\ suggestions[i].match_type = "fuzzy"
         /\ \E g \in BestKeys(KeyScores(SrcKey(i))) :
              (10 * KeyScores(SrcKey(i))[g][1]) % KeyScores(SrcKey(i))[g][2] # 0
    /\ \E i \in 1..Len(suggestions) :
         suggestions[i].match_type = "none" /\ desc_to_pair # << >>

\* the reference file has a column with the label, compared trimmed and in
\* lower case
HeaderHas(label) ==
    /\ reference_file.exists
    /\ \E k \in 1..Len(reference_file.header) : Lower(Strip(reference_file.header[k])) = label

\* C16: categorize_parsed_data fails, reporting an error and producing no
\* categorized table, when the reference file does not exist or lacks one of
\* the columns description, category, subcategory; no transaction is
\* categorized then.
C16_ReferenceRequired ==
    (/\ cpc # "start"
     /\ \/ ~reference_file.exists
        \/ ~HeaderHas(DescriptionLabel)
        \/ ~HeaderHas(CategoryLabel)
        \/ ~HeaderHas(<< "s", "u", "b", "c", "a", "t", "e", "g", "o", "r", "y" >>))
      => /\ cpc = "error"
         /\ cresult # ""
         /\ suggestions = << >>

\* a call with transactions has failed on a reference file that holds the
\* subcategories under another label
C16_Witness ==
    /\ cpc = "error"
    /\ src # << >>
    /\ HeaderHas(DescriptionLabel) /\ HeaderHas(CategoryLabel)
    /\ HeaderHas(<< "s", "u", "b", "-", "c", "a", "t", "e", "g", "o", "r", "y" >>)
    /\ cresult = "Reference file missing required columns"

(***************************************************************************)
(* update_references_file(description, category, subcategory) of app.py:   *)
(* the upsert of references.csv, then the merge into categories.json.  The *)
(* taxonomy file is its "categories" list, a sequence of records of a      *)
(* category and its subcategories.                                         *)
(***************************************************************************)
\* the frame read, or pd.DataFrame(columns=['description', 'category', 'sub-category'])
ReadReferences(file) ==
    IF file.exists THEN read_csv(file)
    ELSE [columns |-> << DescriptionLabel, CategoryLabel, SubLabel("update_references_file") >>, rows |-> << >>]

\* ref_df['description'].str.lower().str.strip() == description.lower().strip():
\* the rows that match, a missing description matching nothing
ExistingRows(frame, description) ==
    { i \in 1..Len(frame.rows) :
        LET cell == RowGet(frame.columns, frame.rows[i], DescriptionLabel)
        IN  notna(cell) /\ Strip(Lower(cell)) = Strip(Lower(description)) }

\* the frame with a column of missing values for the label, if it has none
WithColumn(frame, label) ==
    IF \E k \in 1..Len(frame.columns) : frame.columns[k] = label THEN frame
    ELSE [columns |-> Append(frame.columns, label),
          rows |-> [r \in 1..Len(frame.rows) |-> Append(frame.rows[r], NaN)]]

\* ref_df.loc[i, label] = value
SetCell(frame, i, label, value) ==
    [columns |-> frame.columns,
     rows |-> [r \in 1..Len(frame.rows) |->
                 [k \in 1..Len(frame.columns) |->
                    IF r = i /\ frame.columns[k] = label THEN value ELSE frame.rows[r][k]]]]

\* pd.concat([ref_df, new_row], ignore_index=True)
ConcatRow(frame, description, category, subcategory) ==
    [columns |-> frame.columns,
     rows |-> Append(frame.rows,
                [k \in 1..Len(frame.columns) |->
                   IF frame.columns[k] = DescriptionLabel THEN description
                   ELSE IF frame.columns[k] = CategoryLabel THEN category
                   ELSE IF frame.columns[k] = SubLabel("update_references_file") THEN subcategory
                   ELSE NaN])]

\* the three columns of the updater, added where the frame lacks them
WithUpdaterColumns(frame) ==
    WithColumn(WithColumn(WithColumn(frame, DescriptionLabel), CategoryLabel), SubLabel("update_references_file"))

\* an upsert that always adds a row
UpsertFrame_always_append(frame, existing_row, description, category, subcategory) ==
    ConcatRow(frame, description, category, subcategory)

\* the first matching row gets the pair, or a new row is added at the end
UpsertFrame(frame, existing_row, description, category, subcategory) ==
    IF existing_row # { }
    THEN SetCell(SetCell(frame, CHOOSE i \in existing_row : \A j \in existing_row : i <= j,
                         CategoryLabel, category),
                 CHOOSE i \in existing_row : \A j \in existing_row : i <= j,
                 SubLabel("update_references_file"), subcategory)
    ELSE ConcatRow(frame, description, category, subcategory)

\* ref_df.to_csv(ref_file, index=False): a missing value is an empty field
to_csv(frame) ==
    [exists |-> TRUE,
     header |-> frame.columns,
     rows |-> [r \in 1..Len(frame.rows) |->
                 [k \in 1..Len(frame.rows[r]) |->
                    IF frame.rows[r][k] = NaN THEN << >> ELSE frame.rows[r][k]]]]

\* standardize_cols, then the upsert on the standardized frame
UpsertStandardized(frame, description, category, subcategory) ==
    UpsertFrame(WithUpdaterColumns(frame), ExistingRows(frame, description),
                description, category, subcategory)

\* part 1 of update_references_file: the references file it leaves
UpsertReference(file, description, category, subcategory) ==
    to_csv(UpsertStandardized([columns |-> standardize_cols(ReadReferences(file).columns),
                               rows |-> ReadReferences(file).rows],
                              description, category, subcategory))

\* a sort that leaves the list as it is
StableSort_unsorted(seq, keys) == seq

\* sorted(seq, key): the element of each rank, equal keys in their old order
StableSort(seq, keys) ==
    [r \in 1..Len(seq) |->
       seq[CHOOSE i \in 1..Len(seq) :
             r = 1 + Cardinality({ j \in 1..Len(seq) :
                                     StrLess(keys[j], keys[i]) \/ (keys[j] = keys[i] /\ j < i) })]]

\* the index of the first entry of the category, 0 when there is none
CategoryIndex(categories, category) ==
    IF \E i \in 1..Len(categories) : categories[i].category = category
    THEN CHOOSE i \in 1..Len(categories) :
           /\ categories[i].category = category
           /\ \A j \in 1..(i - 1) : categories[j].category # category
    ELSE 0

\* a merge that appends the subcategory without looking for it
MergeInto_no_membership_test(categories, i, category, subcategory) ==
    IF i # 0
    THEN [categories EXCEPT ![i].subcategories =
            StableSort(Append(categories[i].subcategories, subcategory),
                       Append(categories[i].subcategories, subcategory))]
    ELSE StableSort(Append(categories, [category |-> category, subcategories |-> << subcategory >>]),
                    [j \in 1..(Len(categories) + 1) |->
                       IF j <= Len(categories) THEN categories[j].category ELSE category])

\* the loop over categories_data['categories'] and the addition of a new
\* category, i being the first entry of the category
MergeInto(categories, i, category, subcategory) ==
    IF i # 0
    THEN IF \E k \in 1..Len(categories[i].subcategories) : categories[i].subcategories[k] = subcategory
         THEN categories
         ELSE [categories EXCEPT ![i].subcategories =
                 StableSort(Append(categories[i].subcategories, subcategory),
                            Append(categories[i].subcategories, subcategory))]
    ELSE StableSort(Append(categories, [category |-> category, subcategories |-> << subcategory >>]),
                    [j \in 1..(Len(categories) + 1) |->
                       IF j <= Len(categories) THEN categories[j].category ELSE category])

\* json.load, or {"categories": []}
ReadCategories(file) == IF file.exists THEN file.categories ELSE << >>

\* part 2 of update_references_file: the taxonomy file it leaves
MergeTaxonomy(file, category, subcategory) ==
    [exists |-> TRUE,
     categories |-> MergeInto(ReadCategories(file),
                              CategoryIndex(ReadCategories(file), category),
                              category, subcategory)]

\* the locals of a categorization run, left alone by the updater
runUnchanged == UNCHANGED << ref, desc_to_pair, all_choices, cpos, suggestions, cresult >>

\* ref_df['description'].str: the accessor exists for a column of text, and
\* pandas reads a column whose every cell is missing as numbers
HasStrAccessor(frame) ==
    \/ frame.rows = << >>
    \/ \E r \in 1..Len(frame.rows) :
          notna(RowGet(standardize_cols(frame.columns), frame.rows[r], DescriptionLabel))

\* update_references_file(description, category, subcategory), first call:
\* references.csv is written, then categories.json, and True is returned
UpdateReferences ==
    /\ cpc = "update"
    /\ HasStrAccessor(ReadReferences(reference_file))
    /\ ref_before' = reference_file
    /\ cat_before' = categories_file
    /\ reference_file' = UpsertReference(reference_file, call[1], call[2], call[3])
    /\ categories_file' = MergeTaxonomy(categories_file, call[2], call[3])
    /\ ref_once' = reference_file'
    /\ cat_once' = categories_file'
    /\ cpc' = "updated"
    /\ UNCHANGED << src, site, call >>
    /\ runUnchanged /\ othersUnchanged

\* the call raises AttributeError at the .str accessor: nothing is written
UpdateRaises ==
    /\ cpc = "update"
    /\ ~HasStrAccessor(ReadReferences(reference_file))
    /\ cpc' = "raised"
    /\ UNCHANGED << src, site, call, ref_before, cat_before, ref_once, cat_once >>
    /\ filesUnchanged /\ runUnchanged /\ othersUnchanged

\* the same call once more, on the files the first call left
UpdateAgain ==
    /\ cpc = "updated"
    /\ HasStrAccessor(ReadReferences(reference_file))
    /\ reference_file' = UpsertReference(reference_file, call[1], call[2], call[3])
    /\ categories_file' = MergeTaxonomy(categories_file, call[2], call[3])
    /\ cpc' = "twice"
    /\ UNCHANGED << src, site, call, ref_before, cat_before, ref_once, cat_once >>
    /\ runUnchanged /\ othersUnchanged

\* the next categorization run over the updated references.csv: the
\* dashboard's load_and_process_data, or categorize_parsed_data
StartRun ==
    /\ cpc = "updated"
    /\ site' \in { "load_and_process_data", "categorize_parsed_data" }
    /\ cpc' = "start"
    /\ UNCHANGED << src, call, ref_before, cat_before, ref_once, cat_once >>
    /\ filesUnchanged /\ runUnchanged /\ othersUnchanged

(***************************************************************************)
(* Input universe of the updater                                           *)
(***************************************************************************)
\* a description equal to rAbC after lower() and strip()
uAbC == << " ", "A", "B", " ", "c" >>

kAuto == << "A", "u", "t", "o" >>

\* rows of a references.csv of the dashboard, under the header description,
\* category, sub-category: a row the call's description matches, one with
\* the same normalized key in another spelling, another key, and a row
\* without description
UpdaterRows ==
    { << rAbC, kFun, kMisc >>,
      << rAbCPunct, kFun, kMisc >>,
      << rAbD, kFood, kMisc >>,
      << << >>, kFun, kMisc >> }

\* references.csv as the dashboard accepts it, and no file
UpdaterReferences ==
    { ReferenceFile(<< DescriptionLabel, CategoryLabel, SubLabel("update_references_file") >>, rows) :
        rows \in SeqsUpTo(UpdaterRows, MaxRef) }
    \cup
    { ReferenceFile(<< << "D", "e", "s", "c", "r", "i", "p", "t", "i", "o", "n", " " >>, << "C", "a", "t", "e", "g", "o", "r", "y" >>, << "S", "u", "b", "-", "C", "a", "t", "e", "g", "o", "r", "y" >> >>,
                    << << rAbC, kFun, kMisc >> >>),
      ReferenceFile(<< SubLabel("update_references_file"), SubLabel("categorize_parsed_data"), CategoryLabel, DescriptionLabel >>,
                    << << kMisc, kMisc, kFun, rAbD >>, << kMisc, << >>, kFun, rAbC >> >>),
      NoFile }

TaxonomyFile(categories) == [exists |-> TRUE, categories |-> categories]

\* categories.json: none, empty, sorted, unsorted, a subcategory twice, a
\* category twice
Taxonomies ==
    { NoFile,
      TaxonomyFile(<< >>),
      TaxonomyFile(<< [category |-> kFood, subcategories |-> << kDining, kMisc >>],
                      [category |-> kFun, subcategories |-> << kMisc >>] >>),
      TaxonomyFile(<< [category |-> kFun, subcategories |-> << kMisc, kDining >>],
                      [category |-> kFood, subcategories |-> << kMisc >>] >>),
      TaxonomyFile(<< [category |-> kFood, subcategories |-> << kDining, kDining >>] >>),
      TaxonomyFile(<< [category |-> kFun, subcategories |-> << kDining >>],
                      [category |-> kFun, subcategories |-> << kMisc >>] >>) }

\* the triples (description, category, subcategory) of the call
Calls ==
    { << uAbC, kFood, kDining >>,
      << uAbC, kFun, kMisc >>,
      << xFar, kFun, kDining >>,
      << xFar, kAuto, kMisc >> }

InitUpdate ==
    /\ reference_file \in UpdaterReferences
    /\ categories_file \in Taxonomies
    /\ call \in Calls
    /\ src = << Transaction(xAbd), Transaction(call[1]) >>
    /\ site = "update_references_file"
    /\ cpc = "update"
    /\ ref_before = NoFile
    /\ cat_before = NoFile
    /\ ref_once = NoFile
    /\ cat_once = NoFile
    /\ CategorizeLocalsInit
    /\ ParseIdle
    /\ NormalizeIdle

NextUpdate ==
    \/ UpdateReferences
    \/ UpdateRaises
    \/ UpdateAgain
    \/ StartRun
    \/ ReferenceMissingColumns
    \/ BuildLookup
    \/ CategorizeRow
    \/ ReturnSuggestions

\* one call of update_references_file, then the same call again or the next
\* categorization run; the call has written references.csv, so the run never
\* finds it missing
SpecUpdate == InitUpdate /\ [][NextUpdate]_vars

(***************************************************************************)
(* Claims about the reference updater                                      *)
(***************************************************************************)
\* the categorization run that followed the update has returned
RunReturned == call # << >> /\ cpc \in { "done", "error" }

\* the rows of the transactions frame whose description is the call's
CorrectedRows == { i \in 1..Len(src) : src[i].description = call[1] }

\* C17: after update_references_file(d, c, s) has returned, the next
\* categorization run gives every transaction whose description is d the
\* match type exact and the score 100.0, whatever the reference table held
C17_RoundTrip ==
    RunReturned =>
        /\ cpc = "done"
        /\ \A i \in CorrectedRows :
              /\ suggestions[i].match_type = "exact"
              /\ suggestions[i].match_score = 1000

\* the first call of update_references_file has returned True
Updated == cpc = "updated"

\* the rows of the reference table before and after the call, as read
RowsBefore == ReadReferences(ref_before).rows

RowsAfter == read_csv(reference_file).rows

\* the positions of description, category and sub-category in the table
ColumnOf(label) ==
    CHOOSE k \in 1..Len(reference_file.header) : reference_file.header[k] = label

\* the rows whose description equals the call's after trimming and
\* case-folding both
SameDescription ==
    { i \in 1..Len(RowsBefore) :
        /\ notna(RowsBefore[i][ColumnOf(DescriptionLabel)])
        /\ Lower(Strip(RowsBefore[i][ColumnOf(DescriptionLabel)])) = Lower(Strip(call[1])) }

\* row i of the table holds the category and the subcategory of the call
HoldsPair(i) ==
    /\ RowsAfter[i][ColumnOf(CategoryLabel)] = call[2]
    /\ RowsAfter[i][ColumnOf(SubLabel("update_references_file"))] = call[3]

C18_Appended ==
    /\ Updated
    /\ SameDescription = { }
    /\ Len(RowsBefore) >= 1

\* the categories of the taxonomy before and after the call
CategoriesBefore == ReadCategories(cat_before)

CategoriesAfter == ReadCategories(categories_file)

\* how many times a list holds a name
Occurrences(list, name) == Cardinality({ k \in 1..Len(list) : list[k] = name })

\* a list of names in ascending order with no name twice
StrictlySorted(names) == \A k \in 1..(Len(names) - 1) : StrLess(names[k], names[k + 1])

\* categories sorted by name with no duplicate category, every subcategory
\* list sorted without duplicates
WellSorted(categories) ==
    /\ StrictlySorted([k \in 1..Len(categories) |-> categories[k].category])
    /\ \A k \in 1..Len(categories) : StrictlySorted(categories[k].subcategories)

\* the subcategory lists of a category, in the order of its entries
ListsOf(categories, name) ==
    LET OfName(entry) == entry.category = name
        entries == SelectSeq(categories, OfName)
    IN  [k \in 1..Len(entries) |-> entries[k].subcategories]

CategoryNames(categories) == { categories[k].category : k \in 1..Len(categories) }

\* sortedness is kept, and the lists of the other categories are unchanged
SortedKeptOthersUnchanged ==
    /\ WellSorted(CategoriesBefore) => WellSorted(CategoriesAfter)
    /\ \A name \in (CategoryNames(CategoriesBefore) \cup CategoryNames(CategoriesAfter)) \ { call[2] } :
          ListsOf(CategoriesAfter, name) = ListsOf(CategoriesBefore, name)

\* C19 as stated: after the call the taxonomy has an entry for category c
\* whose subcategory list contains s exactly once; a sorted taxonomy without
\* duplicates stays so, and the lists of the other categories are unchanged
C19_ExactlyOnce ==
    Updated =>
        /\ \E k \in 1..Len(CategoriesAfter) :
              /\ CategoriesAfter[k].category = call[2]
              /\ Occurrences(CategoriesAfter[k].subcategories, call[3]) = 1
        /\ SortedKeptOthersUnchanged

\* C19 amended: after the call the taxonomy has an entry for category c
\* whose subcategory list contains s, exactly once unless an entry for c
\* held s more than once before the call; a sorted taxonomy without
\* duplicates stays so, and the lists of the other categories are unchanged
C19_ContainsOnceUnlessTwiceBefore ==
    Updated =>
        /\ \E k \in 1..Len(CategoriesAfter) :
              /\ CategoriesAfter[k].category = call[2]
              /\ Occurrences(CategoriesAfter[k].subcategories, call[3]) >= 1
              /\ (\A j \in 1..Len(CategoriesBefore) :
                     CategoriesBefore[j].category = call[2]
                        => Occurrences(CategoriesBefore[j].subcategories, call[3]) <= 1)
                 => Occurrences(CategoriesAfter[k].subcategories, call[3]) = 1
        /\ SortedKeptOthersUnchanged

\* a call has added its subcategory to a category of a sorted taxonomy that
\* holds another category
C19_Witness ==
    /\ Updated
    /\ WellSorted(CategoriesBefore)
    /\ call[2] \in CategoryNames(CategoriesBefore)
    /\ CategoryNames(CategoriesBefore) # { call[2] }
    /\ CategoriesAfter # CategoriesBefore

\* the second call of update_references_file has returned True
UpdatedTwice == cpc = "twice"

InRowLoop == pc \in { "rows", "done" }

\* the tokens of the 0-based line n of the statement
TokensOf(n) == RowOf(file_content[n + 1])

\* a line with fewer tokens than the layout has headers, or with none but
\* empty tokens
ShortOrBlank(n) == Len(TokensOf(n)) < Len(headers) \/ ~AnyField(TokensOf(n))

\* C21: only lines strictly after the detected header line produce records;
\* among them a line with fewer tokens than the layout's header count, or
\* with only empty tokens, produces none; the other lines are examined in
\* file order and yield at most one record each, carrying the detected card
\* name
C21_RowLoop ==
    InRowLoop =>
        /\ Len(cards) = Len(linenos)
        /\ \A k \in 1..Len(linenos) :
              /\ linenos[k] > start_idx
              /\ linenos[k] < pos
              /\ ~ShortOrBlank(linenos[k])
              /\ cards[k] = card_name
              /\ \A j \in 1..(k - 1) : linenos[j] < linenos[k]
        /\ pc = "done" =>
              /\ Len(df) = Len(linenos)
              /\ \A k \in 1..Len(df) : df[k].card = card_name

\* the call has returned a record, having passed a short line after the
\* header line, from a statement whose first line reads like a data line and
\* stands before the header line
C21_Witness ==
    /\ pc = "done"
    /\ Len(linenos) >= 1
    /\ start_idx >= 1
    /\ ~ShortOrBlank(0)
    /\ \E n \in (start_idx + 1)..(Len(file_content) - 1) :
          /\ ShortOrBlank(n)
          /\ AnyField(TokensOf(n))

(***************************************************************************)
(* Claims about the two pipelines                                          *)
(***************************************************************************)
\* the suggestion the loop of load_and_process_data (app.py) and of main
\* (main.py) makes for the i-th transaction from the same lookup table
OtherPipeline(i) == Suggestion(src[i], "load_and_process_data", desc_to_pair, all_choices)

\* the best fuzzy score of the i-th transaction over the lookup keys
BestScore(i) == extractOne(SrcKey(i), all_choices)[2]

\* no exact match, and a best score in [50, 90)
InBand(i) ==
    /\ SrcKey(i) \notin LookupKeys
    /\ all_choices # << >>
    /\ ~ScoreLess(BestScore(i), << 50, 1 >>)
    /\ ScoreLess(BestScore(i), << 90, 1 >>)

\* C22: on the same transactions and the same lookup table the pipeline with
\* threshold 50 (categorize_parsed_data) and the ones with threshold 90
\* (load_and_process_data, main) give every row the same category,
\* subcategory, match_type and match_score, except the rows without exact
\* match whose best score lies in [50, 90): these are fuzzy in the first and
\* none in the others; the threshold argument of fuzzy_best_match does not
\* change its result
C22_ThresholdsDiffer ==
    \A i \in 1..Len(suggestions) :
      /\ IF InBand(i)
         THEN suggestions[i].match_type = "fuzzy" /\ NoMatch(OtherPipeline(i))
         ELSE suggestions[i] = OtherPipeline(i)
      /\ fuzzy_best_match(SrcKey(i), all_choices, 50) = fuzzy_best_match(SrcKey(i), all_choices, 90)

\* a run has given one row a fuzzy match that the other pipelines refuse, and
\* another row a fuzzy match that they make too
C22_Witness ==
    /\ cpc = "done"
    /\ \E i \in 1..Len(suggestions) : InBand(i)
    /\ \E i \in 1..Len(suggestions) :
          suggestions[i].match_type = "fuzzy" /\ OtherPipeline(i).match_type = "fuzzy"

(***************************************************************************)
(* Claims about a correction and the next run                              *)
(***************************************************************************)
\* the next run of the dashboard, load_and_process_data, has returned
DashboardRunReturned == RunReturned /\ site = "load_and_process_data"

\* C23: after update_references_file(d, c, s) has returned, the next
\* categorization of a transaction with description d yields category c and
\* subcategory s, also when the reference table held several rows of the same
\* normalized key with another pair
C23_CorrectionTakesEffect ==
    DashboardRunReturned =>
        /\ cpc = "done"
        /\ \A i \in CorrectedRows :
              /\ suggestions[i].category = call[2]
              /\ suggestions[i].subcategory = call[3]

(***************************************************************************)
(* Claims about the frame categorize_parsed_data returns                   *)
(***************************************************************************)
\* the output rows made so far copy the input rows they were made from, with
\* a match type of the three and a score from 0 to 100 (held in tenths); the
\* returned frame has one row per transaction
OutputRowsCopied ==
    /\ Len(suggestions) <= Len(src)
    /\ cpc = "done" => Len(suggestions) = Len(src)
    /\ \A i \in 1..Len(suggestions) :
          /\ suggestions[i].date = src[i].date
          /\ suggestions[i].description = src[i].description
          /\ suggestions[i].amount = src[i].amount
          /\ suggestions[i].card = src[i].card
          /\ suggestions[i].match_type \in { "exact", "fuzzy", "none" }
          /\ suggestions[i].match_score >= 0
          /\ suggestions[i].match_score <= 1000

\* no step changes the reference table or the transactions
InputsKept == reference_file' = reference_file /\ src' = src

\* C24: categorize_parsed_data returns one output row per input transaction,
\* in input order, with date, description, amount and card copied; it changes
\* neither the reference table nor the transactions; every match_type is one
\* of exact, fuzzy, none and every match_score lies between 0 and 100
C24_OneRowPerTransaction == [](OutputRowsCopied) /\ [][InputsKept]_vars

\* a run has returned two rows of different match types, one of them for a
\* description that is not in normalized form
C24_Witness ==
    /\ cpc = "done"
    /\ Len(suggestions) >= 2
    /\ suggestions[1].match_type # suggestions[2].match_type
    /\ \E i \in 1..Len(suggestions) :
          suggestions[i].description # NaN /\ SrcKey(i) # suggestions[i].description

====
